---------------------------- MODULE Spec2Model ----------------------------
(***************************************************************************)
(* Terraform LSP benchmark suite: token estimator, token benchmark,        *)
(* semantic quality test, error detection test and comprehensive A/B test. *)
(*                                                                         *)
(* Texts are sequences of character classes: the estimator of              *)
(* token_benchmark_terraform.py only distinguishes whitespace (\s), the    *)
(* characters of its punctuation/operator class, and every other           *)
(* character.  Floats that are ratios of integers are kept as exact        *)
(* fractions [num, den].                                                   *)
(***************************************************************************)
EXTENDS Integers, Sequences, FiniteSets, TLC

VARIABLES
    prog,          \* which script / function is being run
    pc,            \* position inside it
    text1,         \* estimator input (text or None)
    text2,         \* text appended to text1
    est,           \* estimator outputs, once applied
    call,          \* the arguments of a function applied on its own
    ret,           \* what that function returned
    files,         \* the *.tf files of the benchmark workspace, as open() finds them
    workspace,     \* the workspace directory of the run: "absent" or "present"
    idx,           \* loop position: the scenario being run (1-based)
    lsp_usage,     \* TokenUsage of the LSP operation of the current scenario
    non_lsp_usage, \* TokenUsage of the Non-LSP operation of the current scenario
    results,       \* the list of results built by the running function
    count,         \* successful_operations / success_count of the running test
    detected,      \* detected_errors / errors_detected of the running test
    errors,        \* the failure messages collected by the running test
    report,        \* the dict the running function returns
    trace          \* what every underlying call did, in call order (history)

vars == <<prog, pc, text1, text2, est, call, ret, files, workspace, idx, lsp_usage, non_lsp_usage,
          results, count, detected, errors, report, trace>>

estVars == <<text1, text2, est, call, ret>>
tokenVars == <<files, workspace, idx, lsp_usage, non_lsp_usage, results, trace>>
testVars == <<count, detected, errors, report>>

-----------------------------------------------------------------------------
(* Bounds of the model *)

MaxTextLen == 4

\* the scenario loops of the token benchmark run this many catalog entries
MaxScenarios == 3

\* token counts drawn for a pair of usages combined on its own
MaxTokens == 3

\* how many fixture files another process may remove or lock during the
\* text-based scan of the error-detection test
MaxFileFaults == 1

-----------------------------------------------------------------------------
(* Character classes and texts *)

WS == "ws"   \* a whitespace character, matched by \s and removed by strip()
SP == "sp"   \* a character of the class [{}()[\].,;:"'`=+\-*/\\<>!@#$%^&|~]
CH == "ch"   \* any other character

Chars == {WS, SP, CH}

\* Python's None, passed where a str is expected
None == <<"None">>

\* the character c, n times
Rep(c, n) == [i \in 1..n |-> c]

RECURSIVE TextsOfLen(_)
TextsOfLen(n) ==
    IF n = 0 THEN {<<>>}
    ELSE {<<c>> \o t : c \in Chars, t \in TextsOfLen(n - 1)}

RECURSIVE TextsUpTo(_)
TextsUpTo(n) == IF n = 0 THEN TextsOfLen(0) ELSE TextsOfLen(n) \cup TextsUpTo(n - 1)

-----------------------------------------------------------------------------
(* TokenCounter.estimate_tokens *)

\* str.lstrip(): drop the leading whitespace
LStrip(t) ==
    IF \A i \in 1..Len(t) : t[i] = WS THEN <<>>
    ELSE SubSeq(t, CHOOSE i \in 1..Len(t) :
                       t[i] # WS /\ \A j \in 1..(i - 1) : t[j] = WS,
                Len(t))

\* str.rstrip(): drop the trailing whitespace
RStrip(t) ==
    IF \A i \in 1..Len(t) : t[i] = WS THEN <<>>
    ELSE SubSeq(t, 1, CHOOSE i \in 1..Len(t) :
                          t[i] # WS /\ \A j \in (i + 1)..Len(t) : t[j] = WS)

\* text.strip()
Strip(t) == RStrip(LStrip(t))

\* a character starts or continues a match of \s+
StartsOrOutsideRun(t, i) == t[i] # WS \/ i = 1 \/ t[i - 1] # WS

KeptChar(m) == m.keep

\* re.sub(r'\s+', ' ', t): every run of whitespace becomes one space
CollapseWs(t) ==
    LET marked == [i \in 1..Len(t) |->
                      [c |-> t[i], keep |-> StartsOrOutsideRun(t, i)]]
        kept == SelectSeq(marked, KeptChar)
    IN  [i \in 1..Len(kept) |-> kept[i].c]

IsSpecial(c) == c = SP

\* len(re.findall(r'[{}()...]', t))
CountSpecial(t) == Len(SelectSeq(t, IsSpecial))

\* cleaned = re.sub(r'\s+', ' ', text.strip())
Cleaned(t) == CollapseWs(Strip(t))

\* int(base_tokens + special_tokens) with base = len/4 and special = n * 0.3:
\* for non-negative integers int(L/4 + P*0.3) = floor((5L + 6P) / 20)
TruncTokens(len, special) == (5 * len + 6 * special) \div 20

\* a mutant of estimate_tokens: the `if not text` guard is missing, so None
\* reaches text.strip() and raises (reported as -1)
estimate_tokens_noguard(text) ==
    IF text = None THEN -1
    ELSE LET cleaned == Cleaned(text)
         IN  TruncTokens(Len(cleaned), CountSpecial(cleaned))

\* a mutant of estimate_tokens: the estimate is rounded to the nearest
\* integer instead of truncated
estimate_tokens_round(text) ==
    IF text = None \/ text = <<>> THEN 0
    ELSE (5 * Len(Cleaned(text)) + 6 * CountSpecial(Cleaned(text)) + 10) \div 20

\* a mutant of estimate_tokens: the special-character share is subtracted
\* instead of added (int() truncates towards zero)
estimate_tokens_minus(text) ==
    IF text = None \/ text = <<>> THEN 0
    ELSE LET n == 5 * Len(Cleaned(text)) - 6 * CountSpecial(Cleaned(text))
         IN  IF n >= 0 THEN n \div 20 ELSE -((-n) \div 20)

estimate_tokens(text) ==
    IF text = None \/ text = <<>> THEN 0
    ELSE LET cleaned == Cleaned(text)
         IN  TruncTokens(Len(cleaned), CountSpecial(cleaned))

-----------------------------------------------------------------------------
(* The estimator applied to bounded inputs *)

EstInputs == TextsUpTo(MaxTextLen) \cup {None}

InitEstimate ==
    /\ prog = "estimate_tokens"
    /\ pc = "call"
    /\ text1 \in EstInputs
    /\ text2 \in TextsUpTo(MaxTextLen)
    /\ est = [first |-> 0, joined |-> 0]
    /\ call = <<>> /\ ret = <<>>
    /\ files = <<>>
    /\ workspace = "absent"
    /\ idx = 0
    /\ lsp_usage = <<>>
    /\ non_lsp_usage = <<>>
    /\ results = <<>>
    /\ count = 0 /\ detected = <<>> /\ errors = <<>> /\ report = <<>>
    /\ trace = <<>>

\* estimate_tokens(text1) and, for a str, estimate_tokens(text1 + text2)
ApplyEstimate ==
    /\ prog = "estimate_tokens"
    /\ pc = "call"
    /\ est' = [first  |-> estimate_tokens(text1),
               joined |-> IF text1 = None THEN 0
                          ELSE estimate_tokens(text1 \o text2)]
    /\ pc' = "returned"
    /\ UNCHANGED <<prog, text1, text2, call, ret>>
    /\ UNCHANGED <<tokenVars, testVars>>

NextEstimate == ApplyEstimate

SpecEstimate == InitEstimate /\ [][NextEstimate]_vars

-----------------------------------------------------------------------------
(* Properties of the estimator *)

EstReturned == prog = "estimate_tokens" /\ pc = "returned"

\* the characters of t that are not whitespace
NonWsCount(t) == Cardinality({i \in 1..Len(t) : t[i] # WS})

\* the positions where a run of whitespace starts
WsRunStarts(t) == {i \in 1..Len(t) : t[i] = WS /\ (i = 1 \/ t[i - 1] # WS)}

\* the runs of whitespace that have a non-whitespace character on both sides
InnerWsRunStarts(t) ==
    {i \in WsRunStarts(t) : i > 1 /\ \E j \in (i + 1)..Len(t) : t[j] # WS}

SpecialCount(t) == Cardinality({i \in 1..Len(t) : t[i] = SP})

\* k is the truncation to an integer of len/4 + 0.3 * special
IsTruncationOf(k, len, special) ==
    /\ k \in Nat
    /\ 20 * k <= 5 * len + 6 * special
    /\ 5 * len + 6 * special < 20 * (k + 1)

\* C6: appending a non-empty text to a non-empty text never decreases the
\* estimate, whitespace at either end of either text included.
C6_Monotonic ==
    (EstReturned /\ text1 # None /\ text1 # <<>> /\ text2 # <<>>)
        => est.joined >= est.first

\* C6 witness: a text ending in whitespace grows by a text starting with
\* whitespace, and the estimate grows with it.
C6_Witness ==
    /\ EstReturned
    /\ text1 = <<CH, CH, WS>>
    /\ text2 = <<WS, CH, SP>>
    /\ est.joined > est.first

\* C7: the estimate of the empty string and of None is 0, and every estimate
\* is a non-negative integer.
C7_ZeroAndNonNegative ==
    EstReturned =>
        /\ est.first \in Nat
        /\ est.joined \in Nat
        /\ (text1 = None \/ text1 = <<>>) => est.first = 0

\* C7 witness: the estimator was applied to None and returned 0.
C7_Witness == EstReturned /\ text1 = None /\ est.first = 0

\* C8 as stated: L counts one space for every run of whitespace of the
\* input, the leading and the trailing run included.
C8_AsStated ==
    (EstReturned /\ text1 # None /\ text1 # <<>>) =>
        IsTruncationOf(est.first,
                       NonWsCount(text1) + Cardinality(WsRunStarts(text1)),
                       SpecialCount(text1))

\* C8 amended: the estimate of a non-empty text is the truncation of
\* L/4 + 0.3 * P where L is the length of the text after its leading and
\* trailing whitespace is removed and every remaining run of whitespace is
\* replaced by one space, and P counts the special characters.
C8_Amended ==
    (EstReturned /\ text1 # None /\ text1 # <<>>) =>
        IsTruncationOf(est.first,
                       NonWsCount(text1) + Cardinality(InnerWsRunStarts(text1)),
                       SpecialCount(text1))

\* C8 witness: a text with leading, inner and trailing whitespace.
C8_Witness ==
    /\ EstReturned
    /\ text1 = <<WS, SP, WS, CH>>
    /\ text2 = <<WS>>
    /\ est.first = 1
    /\ est.joined = 1

-----------------------------------------------------------------------------
(* Floats that are ratios of integers *)

\* a / b, exactly; den = 0 stands for the ZeroDivisionError Python raises
Frac(n, d) == [num |-> n, den |-> d]

Raised(x) == x.den = 0

Max(a, b) == IF a >= b THEN a ELSE b

Min(a, b) == IF a <= b THEN a ELSE b

\* x >= n for a fraction x with a positive denominator
FracGeq(x, n) == x.num >= n * x.den

FracLeq(x, n) == x.num <= n * x.den

\* x < y for fractions with positive denominators
FracLess(x, y) == x.num * y.den < y.num * x.den

\* x + y for fractions with positive denominators
FracAdd(x, y) == Frac(x.num * y.den + y.num * x.den, x.den * y.den)

\* sum(...) of a list of integers
RECURSIVE SumInts(_)
SumInts(ns) == IF ns = <<>> THEN 0 ELSE Head(ns) + SumInts(Tail(ns))

\* sum(...) of a list of fractions; the sum of no fraction is the integer 0
RECURSIVE SumFracs(_)
SumFracs(xs) == IF xs = <<>> THEN Frac(0, 1) ELSE FracAdd(Head(xs), SumFracs(Tail(xs)))

-----------------------------------------------------------------------------
(* token_benchmark_terraform.py: the scenario catalog and the literals *)

ScenarioNames ==
    << "Find all VPC resources", "Find all security groups",
       "Find all variables", "Find all outputs",
       "Find database-related resources", "Find load balancer configuration",
       "Find all AWS instances", "Find Auto Scaling configuration",
       "Find provider configuration", "Find terraform blocks" >>

\* the characters of the scenario names
ScenarioTexts ==
    << Rep(CH, 4) \o <<WS>> \o Rep(CH, 3) \o <<WS>> \o Rep(CH, 3) \o <<WS>> \o Rep(CH, 9),
       Rep(CH, 4) \o <<WS>> \o Rep(CH, 3) \o <<WS>> \o Rep(CH, 8) \o <<WS>> \o Rep(CH, 6),
       Rep(CH, 4) \o <<WS>> \o Rep(CH, 3) \o <<WS>> \o Rep(CH, 9),
       Rep(CH, 4) \o <<WS>> \o Rep(CH, 3) \o <<WS>> \o Rep(CH, 7),
       Rep(CH, 4) \o <<WS>> \o Rep(CH, 8) \o <<SP>> \o Rep(CH, 7) \o <<WS>> \o Rep(CH, 9),
       Rep(CH, 4) \o <<WS>> \o Rep(CH, 4) \o <<WS>> \o Rep(CH, 8) \o <<WS>> \o Rep(CH, 13),
       Rep(CH, 4) \o <<WS>> \o Rep(CH, 3) \o <<WS>> \o Rep(CH, 3) \o <<WS>> \o Rep(CH, 9),
       Rep(CH, 4) \o <<WS>> \o Rep(CH, 4) \o <<WS>> \o Rep(CH, 7) \o <<WS>> \o Rep(CH, 13),
       Rep(CH, 4) \o <<WS>> \o Rep(CH, 8) \o <<WS>> \o Rep(CH, 13),
       Rep(CH, 4) \o <<WS>> \o Rep(CH, 9) \o <<WS>> \o Rep(CH, 6) >>

\* scenario['non_lsp_files']
ScenarioFiles ==
    << <<"main.tf">>, <<"main.tf">>, <<"variables.tf">>, <<"outputs.tf">>,
       <<"main.tf", "variables.tf", "outputs.tf">>, <<"main.tf", "outputs.tf">>,
       <<"main.tf">>, <<"main.tf", "variables.tf", "outputs.tf">>,
       <<"main.tf">>, <<"main.tf">> >>

\* the scenarios the model runs: the first MaxScenarios of the catalog
NumScenarios == Min(MaxScenarios, Len(ScenarioNames))

NameText(operation_name) ==
    ScenarioTexts[CHOOSE i \in 1..Len(ScenarioNames) : ScenarioNames[i] = operation_name]

\* the files the scenarios read
FileNames == {"main.tf", "variables.tf", "outputs.tf"}

\* the characters of a file name
PathText(f) ==
    CASE f = "main.tf"      -> Rep(CH, 4) \o <<SP>> \o Rep(CH, 2)
      [] f = "variables.tf" -> Rep(CH, 9) \o <<SP>> \o Rep(CH, 2)
      [] f = "outputs.tf"   -> Rep(CH, 7) \o <<SP>> \o Rep(CH, 2)

\* what create_realistic_terraform_project writes to a file, cut after its
\* first line(s): '\nterraform {\n  required_version = ">= 1.0"\n',
\* '\nvariable "aws_region" {\n' and '\noutput "vpc_id" {\n'
FixtureText(f) ==
    CASE f = "main.tf" ->
            <<WS>> \o Rep(CH, 9) \o <<WS, SP>> \o Rep(WS, 3) \o Rep(CH, 16)
                \o <<WS, SP, WS>> \o Rep(SP, 3) \o <<WS, CH, SP, CH, SP, WS>>
      [] f = "variables.tf" ->
            <<WS>> \o Rep(CH, 8) \o <<WS, SP>> \o Rep(CH, 10) \o <<SP, WS, SP, WS>>
      [] f = "outputs.tf" ->
            <<WS>> \o Rep(CH, 6) \o <<WS, SP>> \o Rep(CH, 6) \o <<SP, WS, SP, WS>>

\* "Task: "
TaskPrefix == Rep(CH, 4) \o <<SP, WS>>

\* "\nUsing LSP semantic search\nParameters: {}" (lsp_func is called without
\* keyword arguments, so kwargs is {})
LspContextText ==
    <<WS>> \o Rep(CH, 5) \o <<WS>> \o Rep(CH, 3) \o <<WS>> \o Rep(CH, 8) \o <<WS>>
        \o Rep(CH, 6) \o <<WS>> \o Rep(CH, 10) \o <<SP, WS>> \o Rep(SP, 2)

\* "\nFailed operation"
FailedOperationText == <<WS>> \o Rep(CH, 6) \o <<WS>> \o Rep(CH, 9)

\* "Error: "
ErrorPrefix == Rep(CH, 5) \o <<SP, WS>>

\* "\nReading entire files for context\nFiles: "
ReadingContextText ==
    <<WS>> \o Rep(CH, 7) \o <<WS>> \o Rep(CH, 6) \o <<WS>> \o Rep(CH, 5) \o <<WS>>
        \o Rep(CH, 3) \o <<WS>> \o Rep(CH, 7) \o <<WS>> \o Rep(CH, 5) \o <<SP, WS>>

\* "\nFailed to read files: "
FailedReadText ==
    <<WS>> \o Rep(CH, 6) \o <<WS>> \o Rep(CH, 2) \o <<WS>> \o Rep(CH, 4) \o <<WS>>
        \o Rep(CH, 5) \o <<SP, WS>>

\* "\n# File: "
FileHeaderText == <<WS, SP, WS>> \o Rep(CH, 4) \o <<SP, WS>>

\* "Found content in ", " files, total " and " characters"
FoundContentText == Rep(CH, 5) \o <<WS>> \o Rep(CH, 7) \o <<WS>> \o Rep(CH, 2) \o <<WS>>
FilesTotalText == <<WS>> \o Rep(CH, 5) \o <<SP, WS>> \o Rep(CH, 5) \o <<WS>>
CharactersText == <<WS>> \o Rep(CH, 10)

\* str(e) of the PermissionError open() raises:
\* "[Errno 13] Permission denied: '<workspace>/<file>'"
PermissionErrorText(f) ==
    <<SP>> \o Rep(CH, 5) \o <<WS>> \o Rep(CH, 2) \o <<SP, WS>> \o Rep(CH, 10) \o <<WS>>
        \o Rep(CH, 6) \o <<SP, WS>>
        \o Rep(SP, 2) \o Rep(CH, 5) \o <<SP>> \o Rep(CH, 3) \o <<SP>> \o Rep(CH, 9) \o <<SP>>
        \o Rep(CH, 6) \o <<SP>> \o Rep(CH, 25) \o <<SP>> \o PathText(f) \o <<SP>>

\* str() of a list of file names: "['main.tf', 'outputs.tf']"
RECURSIVE ReprItems(_)
ReprItems(fs) ==
    IF fs = <<>> THEN <<>>
    ELSE <<SP>> \o PathText(Head(fs)) \o <<SP>>
            \o (IF Len(fs) > 1 THEN <<SP, WS>> ELSE <<>>)
            \o ReprItems(Tail(fs))

ReprList(fs) == <<SP>> \o ReprItems(fs) \o <<SP>>

\* str() of a non-negative int: one character per decimal digit
RECURSIVE NumDigits(_)
NumDigits(n) == IF n < 10 THEN 1 ELSE 1 + NumDigits(n \div 10)

DecimalText(n) == Rep(CH, NumDigits(n))

-----------------------------------------------------------------------------
(* What the find_symbol tool may do when a scenario calls it *)

\* "[]": no symbol matches
NoSymbolsJson == Rep(SP, 2)

\* '{"name_path": "aws_vpc.main", "kind": 13}': one symbol descriptor
SymbolJson ==
    Rep(SP, 2) \o Rep(CH, 9) \o Rep(SP, 2) \o <<WS, SP>> \o Rep(CH, 7) \o <<SP>>
        \o Rep(CH, 4) \o Rep(SP, 2) \o <<WS, SP>> \o Rep(CH, 4) \o Rep(SP, 2)
        \o <<WS>> \o Rep(CH, 2) \o <<SP>>

\* "[{...}, {...}, {...}]": three symbols match
SymbolsJson ==
    <<SP>> \o SymbolJson \o <<SP, WS>> \o SymbolJson \o <<SP, WS>> \o SymbolJson \o <<SP>>

\* str(e) of a service error: "language server not running"
ServiceErrorText ==
    Rep(CH, 8) \o <<WS>> \o Rep(CH, 6) \o <<WS>> \o Rep(CH, 3) \o <<WS>> \o Rep(CH, 7)

\* the call returns a text, or raises an Exception with a message
LspReplies ==
    { [raises |-> FALSE, text |-> NoSymbolsJson],
      [raises |-> FALSE, text |-> SymbolsJson],
      [raises |-> TRUE,  text |-> ServiceErrorText] }

-----------------------------------------------------------------------------
(* token_benchmark_terraform.py: the two operations and their comparison *)

\* a mutant of count_operation_tokens: the total leaves the output out
count_operation_tokens_input(input_content, output_content) ==
    LET input_tokens == estimate_tokens(input_content)
        output_tokens == estimate_tokens(output_content)
    IN  [input_tokens  |-> input_tokens,
         output_tokens |-> output_tokens,
         total_tokens  |-> input_tokens]

\* TokenCounter.count_operation_tokens
count_operation_tokens(input_content, output_content) ==
    LET input_tokens == estimate_tokens(input_content)
        output_tokens == estimate_tokens(output_content)
    IN  [input_tokens  |-> input_tokens,
         output_tokens |-> output_tokens,
         total_tokens  |-> input_tokens + output_tokens]

\* the TokenUsage dataclass (execution_time, a wall-clock reading, is left out)
TokenUsage(operation, method, counts, content_length, success) ==
    [operation        |-> operation,
     method           |-> method,
     input_tokens     |-> counts.input_tokens,
     output_tokens    |-> counts.output_tokens,
     total_tokens     |-> counts.total_tokens,
     content_length   |-> content_length,
     efficiency_ratio |-> Frac(counts.total_tokens, Max(content_length, 1)),
     success          |-> success]

\* a mutant of benchmark_lsp_operation: the except branch leaves success True
benchmark_lsp_operation_flag(operation_name, reply) ==
    LET result == IF reply.raises THEN ErrorPrefix \o reply.text ELSE reply.text
        input_context ==
            IF reply.raises
            THEN TaskPrefix \o NameText(operation_name) \o FailedOperationText
            ELSE TaskPrefix \o NameText(operation_name) \o LspContextText
    IN  TokenUsage(operation_name, "LSP",
                   count_operation_tokens(input_context, result),
                   Len(result), TRUE)

\* benchmark_lsp_operation: reply is what lsp_func() does
benchmark_lsp_operation(operation_name, reply) ==
    LET result == IF reply.raises THEN ErrorPrefix \o reply.text ELSE reply.text
        input_context ==
            IF reply.raises
            THEN TaskPrefix \o NameText(operation_name) \o FailedOperationText
            ELSE TaskPrefix \o NameText(operation_name) \o LspContextText
    IN  TokenUsage(operation_name, "LSP",
                   count_operation_tokens(input_context, result),
                   Len(result), ~reply.raises)

\* the loop over files_to_read: a missing file is skipped, any other error of
\* open()/read() leaves the loop
RECURSIVE ReadFiles(_, _)
ReadFiles(files_to_read, fs) ==
    IF files_to_read = <<>>
    THEN [failed |-> FALSE, all_content |-> <<>>, error |-> <<>>]
    ELSE LET f == Head(files_to_read)
             rest == ReadFiles(Tail(files_to_read), fs)
         IN  IF fs[f] = "unreadable"
             THEN [failed |-> TRUE, all_content |-> <<>>,
                   error |-> PermissionErrorText(f)]
             ELSE IF rest.failed THEN rest
             ELSE [failed |-> FALSE,
                   all_content |->
                       (IF fs[f] = "missing" THEN <<>>
                        ELSE FileHeaderText \o PathText(f) \o <<WS>>
                                \o FixtureText(f) \o <<WS>>)
                       \o rest.all_content,
                   error |-> <<>>]

\* benchmark_non_lsp_operation: fs is the state of the workspace files
benchmark_non_lsp_operation(operation_name, files_to_read, fs) ==
    LET read == ReadFiles(files_to_read, fs)
        input_context ==
            IF read.failed
            THEN TaskPrefix \o NameText(operation_name) \o FailedReadText
                    \o ReprList(files_to_read)
            ELSE TaskPrefix \o NameText(operation_name) \o ReadingContextText
                    \o ReprList(files_to_read) \o <<WS, WS>> \o read.all_content
        result ==
            IF read.failed
            THEN ErrorPrefix \o read.error
            ELSE FoundContentText \o DecimalText(Len(files_to_read))
                    \o FilesTotalText \o DecimalText(Len(read.all_content))
                    \o CharactersText
    IN  TokenUsage(operation_name, "Non-LSP",
                   count_operation_tokens(input_context, result),
                   Len(result), ~read.failed)

\* a mutant of BenchmarkResultOf: negative savings are reported as 0
BenchmarkResultOf_clamped(scenario, lsp, non_lsp) ==
    [scenario      |-> scenario,
     lsp_usage     |-> lsp,
     non_lsp_usage |-> non_lsp,
     token_savings |-> Max(non_lsp.total_tokens - lsp.total_tokens, 0),
     efficiency_improvement |->
        Frac(100 * (non_lsp.total_tokens - lsp.total_tokens),
             Max(non_lsp.total_tokens, 1)),
     context_reduction |->
        Frac(100 * (non_lsp.input_tokens - lsp.input_tokens),
             Max(non_lsp.input_tokens, 1))]

\* a mutant of BenchmarkResultOf: the denominator of efficiency_improvement
\* is not floored to 1
BenchmarkResultOf_nofloor(scenario, lsp, non_lsp) ==
    [scenario      |-> scenario,
     lsp_usage     |-> lsp,
     non_lsp_usage |-> non_lsp,
     token_savings |-> non_lsp.total_tokens - lsp.total_tokens,
     efficiency_improvement |->
        Frac(100 * (non_lsp.total_tokens - lsp.total_tokens),
             non_lsp.total_tokens),
     context_reduction |->
        Frac(100 * (non_lsp.input_tokens - lsp.input_tokens),
             Max(non_lsp.input_tokens, 1))]

\* a mutant of BenchmarkResultOf: context_reduction is taken over the total
\* token counts
BenchmarkResultOf_total(scenario, lsp, non_lsp) ==
    [scenario      |-> scenario,
     lsp_usage     |-> lsp,
     non_lsp_usage |-> non_lsp,
     token_savings |-> non_lsp.total_tokens - lsp.total_tokens,
     efficiency_improvement |->
        Frac(100 * (non_lsp.total_tokens - lsp.total_tokens),
             Max(non_lsp.total_tokens, 1)),
     context_reduction |->
        Frac(100 * (non_lsp.total_tokens - lsp.total_tokens),
             Max(non_lsp.total_tokens, 1))]

\* run_benchmark_scenarios, "Calculate savings and improvements": the
\* BenchmarkResult of a scenario
BenchmarkResultOf(scenario, lsp, non_lsp) ==
    [scenario      |-> scenario,
     lsp_usage     |-> lsp,
     non_lsp_usage |-> non_lsp,
     token_savings |-> non_lsp.total_tokens - lsp.total_tokens,
     efficiency_improvement |->
        Frac(100 * (non_lsp.total_tokens - lsp.total_tokens),
             Max(non_lsp.total_tokens, 1)),
     context_reduction |->
        Frac(100 * (non_lsp.input_tokens - lsp.input_tokens),
             Max(non_lsp.input_tokens, 1))]

\* max(results, key=...) and min(results, key=...): the first result whose
\* efficiency_improvement no other result exceeds (resp. falls below)
BestScenario(results_) ==
    results_[CHOOSE i \in 1..Len(results_) :
        /\ \A j \in 1..Len(results_) :
              ~FracLess(results_[i].efficiency_improvement,
                        results_[j].efficiency_improvement)
        /\ \A j \in 1..(i - 1) :
              FracLess(results_[j].efficiency_improvement,
                       results_[i].efficiency_improvement)]

WorstScenario(results_) ==
    results_[CHOOSE i \in 1..Len(results_) :
        /\ \A j \in 1..Len(results_) :
              ~FracLess(results_[j].efficiency_improvement,
                        results_[i].efficiency_improvement)
        /\ \A j \in 1..(i - 1) :
              FracLess(results_[i].efficiency_improvement,
                       results_[j].efficiency_improvement)]

\* generate_report: the report dict, or the exception the first failing
\* statement raises. Costs are in units of 1/100000 dollar: 0.03 per 1000
\* input tokens and 0.06 per 1000 output tokens
generate_report(results_) ==
    LET n == Len(results_)
        Col(F(_)) == [i \in 1..n |-> F(results_[i])]
        LspTotal(r) == r.lsp_usage.total_tokens
        NonLspTotal(r) == r.non_lsp_usage.total_tokens
        Efficiency(r) == r.efficiency_improvement
        Reduction(r) == r.context_reduction
        LspOk(r) == IF r.lsp_usage.success THEN 1 ELSE 0
        NonLspOk(r) == IF r.non_lsp_usage.success THEN 1 ELSE 0
        LspCost(r) == 3 * r.lsp_usage.input_tokens + 6 * r.lsp_usage.output_tokens
        NonLspCost(r) ==
            3 * r.non_lsp_usage.input_tokens + 6 * r.non_lsp_usage.output_tokens
        total_lsp_tokens == SumInts(Col(LspTotal))
        total_non_lsp_tokens == SumInts(Col(NonLspTotal))
        total_savings == total_non_lsp_tokens - total_lsp_tokens
        overall_efficiency == Frac(100 * total_savings, Max(total_non_lsp_tokens, 1))
        sum_efficiency == SumFracs(Col(Efficiency))
        sum_reduction == SumFracs(Col(Reduction))
        avg_efficiency == Frac(sum_efficiency.num, sum_efficiency.den * n)
        avg_context_reduction == Frac(sum_reduction.num, sum_reduction.den * n)
        lsp_success_rate == Frac(100 * SumInts(Col(LspOk)), n)
        non_lsp_success_rate == Frac(100 * SumInts(Col(NonLspOk)), n)
        lsp_total_cost == SumInts(Col(LspCost))
        non_lsp_total_cost == SumInts(Col(NonLspCost))
        cost_savings == non_lsp_total_cost - lsp_total_cost
        cost_efficiency == Frac(100 * cost_savings, Max(non_lsp_total_cost, 1000))
    IN  IF \/ Raised(overall_efficiency) \/ Raised(avg_efficiency)
           \/ Raised(avg_context_reduction) \/ Raised(lsp_success_rate)
           \/ Raised(non_lsp_success_rate)
        THEN [raised |-> TRUE, error |-> "ZeroDivisionError"]
        ELSE [raised |-> FALSE,
              total_scenarios |-> n,
              overall_efficiency_gain |-> overall_efficiency,
              average_efficiency_improvement |-> avg_efficiency,
              average_context_reduction |-> avg_context_reduction,
              total_token_savings |-> total_savings,
              lsp_success_rate |-> lsp_success_rate,
              non_lsp_success_rate |-> non_lsp_success_rate,
              cost_savings |-> Frac(cost_savings, 100000),
              cost_efficiency |-> cost_efficiency,
              best_scenario |-> BestScenario(results_).scenario,
              best_efficiency |-> BestScenario(results_).efficiency_improvement,
              worst_scenario |-> WorstScenario(results_).scenario,
              worst_efficiency |-> WorstScenario(results_).efficiency_improvement,
              scenarios |-> results_]

-----------------------------------------------------------------------------
(* token_benchmark_terraform.py: main() from run_benchmark_scenarios on *)

\* an entry of the call history
Event(op, scenario, raised, message) ==
    [op |-> op, scenario |-> scenario, raised |-> raised, message |-> message]

\* after TerraformTokenBenchmark(workspace): the fixture files are written
InitToken ==
    /\ prog = "token_benchmark"
    /\ pc = "create_agent"
    /\ text1 = <<>> /\ text2 = <<>> /\ est = <<>>
    /\ call = <<>> /\ ret = <<>>
    /\ files = [f \in FileNames |-> "ok"]
    /\ workspace = "present"
    /\ idx = 0
    /\ lsp_usage = <<>>
    /\ non_lsp_usage = <<>>
    /\ results = <<>>
    /\ count = 0 /\ detected = <<>> /\ errors = <<>> /\ report = <<>>
    /\ trace = <<>>

\* agent = self.create_agent(): an exception leaves run_benchmark_scenarios
\* and is caught by main()
TokenCreateAgent ==
    /\ prog = "token_benchmark" /\ pc = "create_agent"
    /\ \/ /\ pc' = "lsp"
          /\ idx' = 1
          /\ trace' = Append(trace, Event("create_agent", 0, FALSE, <<>>))
       \/ /\ pc' = "failed"
          /\ idx' = idx
          /\ trace' = Append(trace, Event("create_agent", 0, TRUE, ServiceErrorText))
    /\ UNCHANGED <<prog, estVars, testVars, files, workspace, lsp_usage, non_lsp_usage, results>>

\* another process removes a workspace file or makes it unreadable before the
\* Non-LSP operation opens the files
TokenFileChange ==
    /\ prog = "token_benchmark" /\ pc = "non_lsp"
    /\ \E f \in FileNames, st \in {"missing", "unreadable"} :
          /\ files[f] = "ok"
          /\ files' = [files EXCEPT ![f] = st]
    /\ UNCHANGED <<prog, pc, estVars, testVars, workspace, idx, lsp_usage, non_lsp_usage, results, trace>>

\* lsp_usage = self.benchmark_lsp_operation(scenario['name'], scenario['lsp_func'])
TokenLspOp ==
    /\ prog = "token_benchmark" /\ pc = "lsp"
    /\ \E reply \in LspReplies :
          /\ lsp_usage' = benchmark_lsp_operation(ScenarioNames[idx], reply)
          /\ trace' = Append(trace, Event("lsp", idx, reply.raises,
                                          IF reply.raises THEN reply.text ELSE <<>>))
    /\ pc' = "non_lsp"
    /\ UNCHANGED <<prog, estVars, testVars, files, workspace, idx, non_lsp_usage, results>>

\* non_lsp_usage = self.benchmark_non_lsp_operation(scenario['name'],
\*                                                  scenario['non_lsp_files'])
TokenNonLspOp ==
    /\ prog = "token_benchmark" /\ pc = "non_lsp"
    /\ non_lsp_usage' =
          benchmark_non_lsp_operation(ScenarioNames[idx], ScenarioFiles[idx], files)
    /\ LET read == ReadFiles(ScenarioFiles[idx], files)
       IN  trace' = Append(trace, Event("non_lsp", idx, read.failed, read.error))
    /\ pc' = "record"
    /\ UNCHANGED <<prog, estVars, testVars, files, workspace, idx, lsp_usage, results>>

\* a mutant of TokenRecord: the BenchmarkResult is inserted at the head of
\* the list
TokenRecord_insert ==
    /\ prog = "token_benchmark" /\ pc = "record"
    /\ LET r == BenchmarkResultOf(ScenarioNames[idx], lsp_usage, non_lsp_usage)
       IN  /\ results' = <<r>> \o results
           /\ idx' = idx + 1
           /\ pc' = IF idx + 1 > NumScenarios THEN "report" ELSE "lsp"
    /\ UNCHANGED <<prog, estVars, testVars, files, workspace, lsp_usage, non_lsp_usage, trace>>

\* the BenchmarkResult is computed and appended; a ZeroDivisionError would
\* leave the loop and be caught by main()
TokenRecord ==
    /\ prog = "token_benchmark" /\ pc = "record"
    /\ LET r == BenchmarkResultOf(ScenarioNames[idx], lsp_usage, non_lsp_usage)
       IN  IF Raised(r.efficiency_improvement) \/ Raised(r.context_reduction)
           THEN /\ pc' = "failed"
                /\ UNCHANGED <<results, idx>>
           ELSE /\ results' = Append(results, r)
                /\ idx' = idx + 1
                /\ pc' = IF idx + 1 > NumScenarios THEN "report" ELSE "lsp"
    /\ UNCHANGED <<prog, estVars, testVars, files, workspace, lsp_usage, non_lsp_usage, trace>>

\* report = benchmark.generate_report(results): an exception is caught by
\* main(), which returns None
TokenReport ==
    /\ prog = "token_benchmark" /\ pc = "report"
    /\ LET rep == generate_report(results)
       IN  IF rep.raised
           THEN /\ pc' = "failed"
                /\ report' = report
           ELSE /\ pc' = "done"
                /\ report' = rep
    /\ UNCHANGED <<prog, estVars, tokenVars, count, detected, errors>>

NextToken ==
    \/ TokenCreateAgent
    \/ TokenFileChange
    \/ TokenLspOp
    \/ TokenNonLspOp
    \/ TokenRecord
    \/ TokenReport

SpecToken == InitToken /\ [][NextToken]_vars

-----------------------------------------------------------------------------
(* The comparison of run_benchmark_scenarios applied to bounded usages *)

BoundedUsages(method) ==
    { TokenUsage(ScenarioNames[1], method,
                 [input_tokens |-> i, output_tokens |-> o, total_tokens |-> i + o],
                 0, ok) :
        i \in 0..MaxTokens, o \in 0..MaxTokens, ok \in BOOLEAN }

InitCombine ==
    /\ prog = "combine"
    /\ pc = "call"
    /\ text1 = <<>> /\ text2 = <<>> /\ est = <<>>
    /\ call = <<>> /\ ret = <<>>
    /\ files = <<>>
    /\ workspace = "absent"
    /\ idx = 1
    /\ lsp_usage \in BoundedUsages("LSP")
    /\ non_lsp_usage \in BoundedUsages("Non-LSP")
    /\ results = <<>>
    /\ count = 0 /\ detected = <<>> /\ errors = <<>> /\ report = <<>>
    /\ trace = <<>>

\* "Calculate savings and improvements" for the pair of usages
ApplyCombine ==
    /\ prog = "combine" /\ pc = "call"
    /\ LET r == BenchmarkResultOf(ScenarioNames[idx], lsp_usage, non_lsp_usage)
       IN  IF Raised(r.efficiency_improvement) \/ Raised(r.context_reduction)
           THEN /\ pc' = "raised"
                /\ results' = results
           ELSE /\ pc' = "returned"
                /\ results' = <<r>>
    /\ UNCHANGED <<prog, estVars, testVars, files, workspace, idx, lsp_usage, non_lsp_usage, trace>>

NextCombine == ApplyCombine

SpecCombine == InitCombine /\ [][NextCombine]_vars

-----------------------------------------------------------------------------
(* Properties of the comparison *)

\* C3: the token_savings of every BenchmarkResult of run_benchmark_scenarios
\* is the Non-LSP total minus the LSP total, negative or not, whether or not
\* an operation failed.
C3_TokenSavings ==
    prog = "token_benchmark" =>
        \A i \in 1..Len(results) :
            results[i].token_savings =
                results[i].non_lsp_usage.total_tokens - results[i].lsp_usage.total_tokens

\* C3 witness: a result whose Non-LSP operation failed and whose savings are
\* negative, and a result whose LSP operation failed.
C3_Witness ==
    /\ prog = "token_benchmark"
    /\ \E i \in 1..Len(results) :
          /\ ~results[i].non_lsp_usage.success
          /\ results[i].token_savings < 0
    /\ \E i \in 1..Len(results) : ~results[i].lsp_usage.success

\* C4: efficiency_improvement is token_savings / max(naive total, 1) * 100;
\* it is defined (nothing is raised) when the naive total is 0, and it never
\* exceeds 100.
C4_EfficiencyImprovement ==
    (prog = "combine" /\ pc # "call") =>
        /\ pc = "returned"
        /\ LET r == results[1]
               e == r.efficiency_improvement
           IN  /\ e.den > 0
               /\ e.num * Max(non_lsp_usage.total_tokens, 1)
                     = 100 * r.token_savings * e.den
               /\ e.num <= 100 * e.den

\* C4 witness: a pair whose naive total is 0 and whose semantic total is not.
C4_Witness ==
    /\ prog = "combine" /\ pc = "returned"
    /\ non_lsp_usage.total_tokens = 0
    /\ lsp_usage.total_tokens = 2
    /\ results[1].efficiency_improvement = Frac(-200, 1)

WithOutput(usage, o) ==
    [usage EXCEPT !.output_tokens = o, !.total_tokens = usage.input_tokens + o]

\* C5: context_reduction is (naive input - semantic input) / max(naive
\* input, 1) * 100, whatever the two output-token counts are.
C5_ContextReduction ==
    (prog = "combine" /\ pc = "returned") =>
        LET c == results[1].context_reduction
        IN  /\ c.den > 0
            /\ c.num * Max(non_lsp_usage.input_tokens, 1)
                  = 100 * (non_lsp_usage.input_tokens - lsp_usage.input_tokens) * c.den
            /\ \A o1, o2 \in 0..MaxTokens :
                  BenchmarkResultOf(ScenarioNames[idx], WithOutput(lsp_usage, o1),
                                    WithOutput(non_lsp_usage, o2)).context_reduction = c

\* C5 witness: a pair with different output counts; the reduction is that of
\* the input counts alone.
C5_Witness ==
    /\ prog = "combine" /\ pc = "returned"
    /\ lsp_usage.input_tokens = 1 /\ lsp_usage.output_tokens = 3
    /\ non_lsp_usage.input_tokens = 2 /\ non_lsp_usage.output_tokens = 0
    /\ results[1].context_reduction = Frac(100, 2)

-----------------------------------------------------------------------------
(* What the find_symbol tool may do when a test queries it: it raises, or   *)
(* it returns a list of symbols; `symbols` is the length of the list and    *)
(* `expected` tells whether a symbol of the list contains the text the test *)
(* looks for.                                                               *)

SymbolReply(n, e) ==
    [raises |-> FALSE, text |-> <<>>, symbols |-> n, expected |-> e]

RaiseReply(message) ==
    [raises |-> TRUE, text |-> message, symbols |-> 0, expected |-> FALSE]

TestReplies ==
    { RaiseReply(ServiceErrorText), SymbolReply(0, FALSE),
      SymbolReply(1, FALSE), SymbolReply(1, TRUE) }

-----------------------------------------------------------------------------
(* semantic_quality_test.py: main() from test_semantic_operations on *)

QualityScenarios ==
    << [name |-> "Find VPC resource",           expected |-> "main"],
       [name |-> "Find instance resource",      expected |-> "web"],
       [name |-> "Find subnet resource",        expected |-> "public"],
       [name |-> "Find module definition",      expected |-> "database"],
       [name |-> "Find provider block",         expected |-> "aws"],
       [name |-> "Find region variable",        expected |-> "aws_region"],
       [name |-> "Find CIDR variable",          expected |-> "vpc_cidr"],
       [name |-> "Find instance type variable", expected |-> "instance_type"] >>

\* the body of the scenario loop: the entry appended to results (without its
\* execution_time, a wall-clock reading)
QualityEntry(scenario, reply) ==
    IF reply.raises
    THEN [scenario |-> scenario.name, success |-> FALSE, error |-> reply.text,
          expected |-> scenario.expected, found_expected |-> FALSE]
    ELSE [scenario |-> scenario.name,
          success |-> reply.expected /\ reply.symbols > 0,
          symbols_found |-> reply.symbols,
          expected |-> scenario.expected, found_expected |-> reply.expected]

\* a mutant of TargetMet: the threshold of the per-test success flag (90) is
\* used for the claim
TargetMet_ninety(rate) == FracGeq(rate, 90)

\* success_rate >= 95 / confidence_score >= 95
TargetMet(rate) == FracGeq(rate, 95)

\* the dict test_semantic_operations returns
QualitySummary(successful_operations, entries) ==
    [success_rate          |-> Frac(100 * successful_operations, Len(QualityScenarios)),
     successful_operations |-> successful_operations,
     total_scenarios       |-> Len(QualityScenarios),
     target_met            |-> TargetMet(Frac(100 * successful_operations,
                                              Len(QualityScenarios))),
     results               |-> entries]

\* after SemanticQualityTester(workspace): the fixture files are written
InitQuality ==
    /\ prog = "semantic_quality"
    /\ pc = "create_agent"
    /\ text1 = <<>> /\ text2 = <<>> /\ est = <<>>
    /\ call = <<>> /\ ret = <<>>
    /\ files = <<>>
    /\ workspace = "present"
    /\ idx = 0
    /\ lsp_usage = <<>>
    /\ non_lsp_usage = <<>>
    /\ results = <<>>
    /\ count = 0 /\ detected = <<>> /\ errors = <<>> /\ report = <<>>
    /\ trace = <<>>

\* agent = SerenaAgent(...): an exception leaves test_semantic_operations and
\* is caught by main()
QualityCreateAgent ==
    /\ prog = "semantic_quality" /\ pc = "create_agent"
    /\ \/ /\ pc' = "search"
          /\ idx' = 1
          /\ trace' = Append(trace, Event("create_agent", 0, FALSE, <<>>))
       \/ /\ pc' = "failed"
          /\ idx' = idx
          /\ trace' = Append(trace, Event("create_agent", 0, TRUE, ServiceErrorText))
    /\ UNCHANGED <<prog, estVars, files, workspace, lsp_usage, non_lsp_usage, results, testVars>>

\* one pass of `for i, scenario in enumerate(test_scenarios, 1)`
QualitySearch ==
    /\ prog = "semantic_quality" /\ pc = "search"
    /\ \E reply \in TestReplies :
          LET entry == QualityEntry(QualityScenarios[idx], reply)
          IN  /\ results' = Append(results, entry)
              /\ count' = count + (IF entry.success THEN 1 ELSE 0)
              /\ trace' = Append(trace, Event("search", idx, reply.raises, reply.text))
    /\ idx' = idx + 1
    /\ pc' = IF idx + 1 > Len(QualityScenarios) THEN "summary" ELSE "search"
    /\ UNCHANGED <<prog, estVars, files, workspace, lsp_usage, non_lsp_usage, detected, errors, report>>

\* the success rate is computed and the dict returned to main()
QualityReturn ==
    /\ prog = "semantic_quality" /\ pc = "summary"
    /\ report' = QualitySummary(count, results)
    /\ pc' = "save"
    /\ UNCHANGED <<prog, estVars, tokenVars, count, detected, errors>>

\* main() writes the results file; an OSError is caught by main()
QualitySave ==
    /\ prog = "semantic_quality" /\ pc = "save"
    /\ \/ pc' = "done"
       \/ pc' = "failed"
    /\ UNCHANGED <<prog, estVars, tokenVars, testVars>>

NextQuality ==
    \/ QualityCreateAgent
    \/ QualitySearch
    \/ QualityReturn
    \/ QualitySave

SpecQuality == InitQuality /\ [][NextQuality]_vars

-----------------------------------------------------------------------------
(* error_detection_test.py: test_lsp_error_detection *)

KnownErrors ==
    << [type |-> "syntax_error",        pattern |-> "aws_vpc"],
       [type |-> "type_error",          pattern |-> "instance_type"],
       [type |-> "missing_argument",    pattern |-> "incomplete"],
       [type |-> "circular_dependency", pattern |-> "security_group"],
       [type |-> "invalid_reference",   pattern |-> "nonexistent"],
       [type |-> "undefined_variable",  pattern |-> "undefined_variable"],
       [type |-> "type_mismatch",       pattern |-> "not_a_number"] >>

\* the find_symbol replies of the detection loop: only the number of symbols
\* is looked at
DetectReplies ==
    { RaiseReply(ServiceErrorText), SymbolReply(0, FALSE), SymbolReply(1, TRUE) }

\* (found / expected) * 100 of error_detection_test.py lines 252 and 301 and
\* of comprehensive_ab_test.py line 559; division by zero raises
DetectionRate(found, expected) == Frac(100 * found, expected)

\* the body of the detection loop: the entry appended to detection_attempts
\* (without its execution_time)
DetectionAttempt(error, reply) ==
    IF reply.raises
    THEN [error |-> error.type, detected |-> FALSE, error_message |-> reply.text]
    ELSE [error |-> error.type, detected |-> reply.symbols > 0,
          symbols_found |-> reply.symbols]

\* the files create_error_scenarios writes
ErrorFixtureFiles ==
    {"syntax_errors.tf", "logic_errors.tf", "reference_errors.tf", "variables_errors.tf"}

\* error_patterns of test_traditional_error_detection
ErrorPatterns ==
    << "resource aws_vpc", "instance_type = 123", "nonexistent",
       "undefined_variable", "not_a_number" >>

\* the error_patterns that occur as substrings of the text written to f
PatternsIn(f) ==
    CASE f = "syntax_errors.tf"    -> {"resource aws_vpc", "instance_type = 123"}
      [] f = "logic_errors.tf"     -> {}
      [] f = "reference_errors.tf" -> {"nonexistent", "undefined_variable"}
      [] f = "variables_errors.tf" -> {"nonexistent", "not_a_number"}

\* a mutant of test_traditional_error_detection: the try is around the whole
\* scan, so one file that cannot be read ends it with nothing detected
test_traditional_error_detection_abort(fs) ==
    LET detected_patterns ==
            IF \E f \in DOMAIN fs : fs[f] = "unreadable" THEN {}
            ELSE { ErrorPatterns[i] : i \in
                     { j \in 1..Len(ErrorPatterns) :
                         \E f \in DOMAIN fs :
                             fs[f] = "ok" /\ ErrorPatterns[j] \in PatternsIn(f) } }
    IN  [traditional_detection_rate |->
            DetectionRate(Cardinality(detected_patterns), Len(ErrorPatterns)),
         patterns_detected |-> Cardinality(detected_patterns),
         total_patterns    |-> Len(ErrorPatterns),
         detected_patterns |-> detected_patterns]

\* test_traditional_error_detection: fs tells, for each *.tf file, whether
\* os.listdir lists it ("missing": it does not) and whether open()/read()
\* raise ("unreadable"); list(set(detected_patterns)) is kept as a set
test_traditional_error_detection(fs) ==
    LET detected_patterns ==
            { ErrorPatterns[i] : i \in
                { j \in 1..Len(ErrorPatterns) :
                    \E f \in DOMAIN fs :
                        fs[f] = "ok" /\ ErrorPatterns[j] \in PatternsIn(f) } }
    IN  [traditional_detection_rate |->
            DetectionRate(Cardinality(detected_patterns), Len(ErrorPatterns)),
         patterns_detected |-> Cardinality(detected_patterns),
         total_patterns    |-> Len(ErrorPatterns),
         detected_patterns |-> detected_patterns]

\* lsp_results['detection_rate'] / max(traditional rate, 1)
ImprovementFactor(lsp_rate, traditional_rate) ==
    IF traditional_rate.num >= traditional_rate.den
    THEN Frac(lsp_rate.num * traditional_rate.den, lsp_rate.den * traditional_rate.num)
    ELSE lsp_rate

\* after ErrorDetectionTester(workspace): the fixture files are written
InitDetect ==
    /\ prog = "error_detection"
    /\ pc = "create_agent"
    /\ text1 = <<>> /\ text2 = <<>> /\ est = <<>>
    /\ call = <<>> /\ ret = <<>>
    /\ files = [f \in ErrorFixtureFiles |-> "ok"]
    /\ workspace = "present"
    /\ idx = 0
    /\ lsp_usage = <<>>
    /\ non_lsp_usage = <<>>
    /\ results = <<>>
    /\ count = 0 /\ detected = <<>> /\ errors = <<>> /\ report = <<>>
    /\ trace = <<>>

\* agent = SerenaAgent(...): an exception leaves test_lsp_error_detection and
\* is caught by main()
DetectCreateAgent ==
    /\ prog = "error_detection" /\ pc = "create_agent"
    /\ \/ /\ pc' = "detect"
          /\ idx' = 1
          /\ trace' = Append(trace, Event("create_agent", 0, FALSE, <<>>))
       \/ /\ pc' = "failed"
          /\ idx' = idx
          /\ trace' = Append(trace, Event("create_agent", 0, TRUE, ServiceErrorText))
    /\ UNCHANGED <<prog, estVars, files, workspace, lsp_usage, non_lsp_usage, results, testVars>>

\* one pass of `for i, error in enumerate(known_errors, 1)`
DetectSearch ==
    /\ prog = "error_detection" /\ pc = "detect"
    /\ \E reply \in DetectReplies :
          LET attempt == DetectionAttempt(KnownErrors[idx], reply)
          IN  /\ results' = Append(results, attempt)
              /\ detected' = IF attempt.detected
                             THEN Append(detected, KnownErrors[idx].type)
                             ELSE detected
              /\ trace' = Append(trace, Event("detect", idx, reply.raises, reply.text))
    /\ idx' = idx + 1
    /\ pc' = IF idx + 1 > Len(KnownErrors) THEN "lsp_summary" ELSE "detect"
    /\ UNCHANGED <<prog, estVars, files, workspace, lsp_usage, non_lsp_usage, count, errors, report>>

\* the detection rate is computed and the dict returned to main()
DetectReturn ==
    /\ prog = "error_detection" /\ pc = "lsp_summary"
    /\ report' = [detection_rate     |-> DetectionRate(Len(detected), Len(KnownErrors)),
                  detected_errors    |-> Len(detected),
                  total_errors       |-> Len(KnownErrors),
                  errors_found       |-> detected,
                  detection_attempts |-> results]
    /\ pc' = "traditional"
    /\ UNCHANGED <<prog, estVars, tokenVars, count, detected, errors>>

\* another process removes a fixture file or makes it unreadable before the
\* text-based scan opens the files
DetectFileChange ==
    /\ prog = "error_detection" /\ pc = "traditional"
    /\ Cardinality({f \in ErrorFixtureFiles : files[f] # "ok"}) < MaxFileFaults
    /\ \E f \in ErrorFixtureFiles, st \in {"missing", "unreadable"} :
          /\ files[f] = "ok"
          /\ files' = [files EXCEPT ![f] = st]
    /\ UNCHANGED <<prog, pc, estVars, testVars, workspace, idx, lsp_usage, non_lsp_usage, results, trace>>

\* traditional_results = tester.test_traditional_error_detection()
DetectTraditional ==
    /\ prog = "error_detection" /\ pc = "traditional"
    /\ report' = [lsp_results         |-> report,
                  traditional_results |-> test_traditional_error_detection(files)]
    /\ pc' = "compare"
    /\ UNCHANGED <<prog, estVars, tokenVars, count, detected, errors>>

\* main(): the improvement factor and combined_results
DetectCompare ==
    /\ prog = "error_detection" /\ pc = "compare"
    /\ LET improvement_factor ==
               ImprovementFactor(report.lsp_results.detection_rate,
                                 report.traditional_results.traditional_detection_rate)
       IN  report' = [lsp_results         |-> report.lsp_results,
                      traditional_results |-> report.traditional_results,
                      improvement_factor  |-> improvement_factor,
                      target_met          |-> FracGeq(improvement_factor, 4)]
    /\ pc' = "save"
    /\ UNCHANGED <<prog, estVars, tokenVars, count, detected, errors>>

\* main() writes the results file; an OSError is caught by main()
DetectSave ==
    /\ prog = "error_detection" /\ pc = "save"
    /\ \/ pc' = "done"
       \/ pc' = "failed"
    /\ UNCHANGED <<prog, estVars, tokenVars, testVars>>

NextDetect ==
    \/ DetectCreateAgent
    \/ DetectSearch
    \/ DetectReturn
    \/ DetectFileChange
    \/ DetectTraditional
    \/ DetectCompare
    \/ DetectSave

SpecDetect == InitDetect /\ [][NextDetect]_vars

-----------------------------------------------------------------------------
(* The three scenario loops *)

InitLoops == InitToken \/ InitQuality \/ InitDetect

NextLoops == NextToken \/ NextQuality \/ NextDetect

SpecLoops == InitLoops /\ [][NextLoops]_vars

-----------------------------------------------------------------------------
(* comprehensive_ab_test.py: main() from run_all_tests on *)

\* the longest list of expected defects a detection rate is computed for
MaxExpected == 7

\* the largest memory reading (MB) and clock reading drawn for
\* measure_performance
MaxRss == 7

MaxClock == 1

\* the longest list of records handed to analyze_results or generate_report
MaxResults == 2

\* how many calls of a tool may raise in one run of the A/B suite
MaxToolFailures == 1

\* modes = [True]: the mode names of the run
Modes == << "LSP" >>

\* the ten checks of test_semantic_edit_quality: the name searched, the
\* message of its except branch, and what makes it count as a success: at
\* least `min` symbols, or (needs # "") a symbol whose name_path holds `needs`
SemanticChecks ==
    << [name_path |-> "module",         label |-> "Module search failed",          min |-> 1, needs |-> ""],
       [name_path |-> "aws_vpc",        label |-> "VPC search failed",             min |-> 1, needs |-> "main"],
       [name_path |-> "security_group", label |-> "Security group search failed",  min |-> 2, needs |-> ""],
       [name_path |-> "aws_instance",   label |-> "Instance search failed",        min |-> 2, needs |-> ""],
       [name_path |-> "data",           label |-> "Data source search failed",     min |-> 1, needs |-> "aws_ami"],
       [name_path |-> "output",         label |-> "Output search failed",          min |-> 5, needs |-> ""],
       [name_path |-> "variable",       label |-> "Variable search failed",        min |-> 5, needs |-> ""],
       [name_path |-> "provider",       label |-> "Provider search failed",        min |-> 1, needs |-> ""],
       [name_path |-> "terraform",      label |-> "Terraform block search failed", min |-> 1, needs |-> ""],
       [name_path |-> "aws",            label |-> "AWS resource search failed",    min |-> 5, needs |-> ""] >>

\* expected_errors of test_error_detection_confidence
ExpectedErrors ==
    << "undefined_variable", "aws_instance.nonexistent",
       "resource aws_s3_bucket \"test\"", "circular dependency",
       "instance_type = 123", "missing required cidr_block" >>

\* the find_symbol replies that the ten checks tell apart
CheckReplies ==
    { RaiseReply(ServiceErrorText) } \cup
    { SymbolReply(n, e) : n \in {0, 1, 2, 5}, e \in {FALSE} } \cup
    { SymbolReply(n, TRUE) : n \in {1, 2, 5} }

\* a mutant of CheckPasses: one symbol is enough for every check
CheckPasses_one(check, reply) == reply.symbols >= 1

\* the condition of the `if` of a check
CheckPasses(check, reply) ==
    IF check.needs = "" THEN reply.symbols >= check.min ELSE reply.expected

\* the search_for_pattern replies: the call raises or returns a text of
\* `length` characters
SearchReplies ==
    { [raises |-> TRUE,  text |-> ServiceErrorText, length |-> 0] } \cup
    { [raises |-> FALSE, text |-> <<>>, length |-> n] : n \in {0, 10, 11} }

\* `if result and len(result) > 10`
PatternFound(reply) == reply.length # 0 /\ reply.length > 10

\* the readings of measure_performance that test_startup_performance
\* reports: startup_time in seconds, memory_usage_mb
PerfSamples ==
    { [startup_time |-> Frac(s, 10), memory_usage_mb |-> m] :
        s \in {4, 6}, m \in {100, 101} }

\* a mutant of SemanticTestResult: the success flag uses the threshold of the
\* claim (95)
SemanticTestResult_claim(mode, success_count, errors_detected) ==
    LET total_tests == Len(SemanticChecks)
        success_rate == Frac(100 * success_count, total_tests)
    IN  [test_name        |-> "semantic_edit_quality",
         mode             |-> mode,
         success          |-> FracGeq(success_rate, 95),
         errors_detected  |-> errors_detected,
         confidence_score |-> success_rate,
         details          |-> [success_count |-> success_count,
                               total_tests   |-> total_tests,
                               success_rate  |-> success_rate,
                               tests_passed  |-> success_count,
                               tests_failed  |-> total_tests - success_count]]

\* the TestResult of test_semantic_edit_quality; execution_time and
\* memory_usage are readings of this test that nothing reads afterwards
SemanticTestResult(mode, success_count, errors_detected) ==
    LET total_tests == Len(SemanticChecks)
        success_rate == Frac(100 * success_count, total_tests)
    IN  [test_name        |-> "semantic_edit_quality",
         mode             |-> mode,
         success          |-> FracGeq(success_rate, 90),
         errors_detected  |-> errors_detected,
         confidence_score |-> success_rate,
         details          |-> [success_count |-> success_count,
                               total_tests   |-> total_tests,
                               success_rate  |-> success_rate,
                               tests_passed  |-> success_count,
                               tests_failed  |-> total_tests - success_count]]

\* the TestResult of test_error_detection_confidence
ErrorTestResult(mode, errors_detected, confidence_errors) ==
    LET detection_rate == DetectionRate(Len(errors_detected), Len(ExpectedErrors))
    IN  [test_name        |-> "error_detection_confidence",
         mode             |-> mode,
         success          |-> FracGeq(detection_rate, 60),
         errors_detected  |-> confidence_errors,
         confidence_score |-> detection_rate,
         details          |-> [expected_errors |-> Len(ExpectedErrors),
                               detected_errors |-> Len(errors_detected),
                               detection_rate  |-> detection_rate,
                               errors_found    |-> errors_detected]]

\* the TestResult of test_startup_performance
StartupTestResult(mode, sample) ==
    [test_name        |-> "startup_performance",
     mode             |-> mode,
     success          |-> TRUE,
     execution_time   |-> sample.startup_time,
     memory_usage     |-> sample.memory_usage_mb,
     errors_detected  |-> <<>>,
     confidence_score |-> Frac(100, 1),
     details          |-> [startup_time_seconds |-> sample.startup_time,
                           memory_usage_mb      |-> sample.memory_usage_mb]]

\* an empty dict
EmptyDict == [k \in {} |-> TRUE]

\* [r for r in self.results if r.test_name == test_name]
ResultsNamed(rs, test_name) == SelectSeq(rs, LAMBDA r : r.test_name = test_name)

\* [r for r in rs if r.mode == mode]: its head is next((...), None)
ResultsOfMode(rs, mode) == SelectSeq(rs, LAMBDA r : r.mode = mode)

\* a mutant of analyze_results: the error-detection claim is given a verdict
\* only when a Non-LSP result is there to compare with
analyze_results_compared(rs) ==
    LET error_results == ResultsNamed(rs, "error_detection_confidence")
    IN  [semantic_edit_quality |-> EmptyDict,
         error_detection       |-> EmptyDict,
         performance           |-> EmptyDict,
         claims_validation     |->
            IF ResultsOfMode(error_results, "Non-LSP") # <<>>
            THEN "error_detection" :> "needs_baseline"
            ELSE EmptyDict]

\* analyze_results: the analysis dict built from self.results
analyze_results(rs) ==
    LET semantic_results == ResultsNamed(rs, "semantic_edit_quality")
        error_results    == ResultsNamed(rs, "error_detection_confidence")
        perf_results     == ResultsNamed(rs, "startup_performance")
        lsp_semantic     == ResultsOfMode(semantic_results, "LSP")
        lsp_error        == ResultsOfMode(error_results, "LSP")
        lsp_perf         == ResultsOfMode(perf_results, "LSP")
    IN  [semantic_edit_quality |->
            IF lsp_semantic # <<>>
            THEN "lsp" :> lsp_semantic[1].confidence_score
            ELSE EmptyDict,
         error_detection |->
            IF lsp_error # <<>>
            THEN "lsp" :> lsp_error[1].confidence_score
            ELSE EmptyDict,
         performance |->
            IF lsp_perf # <<>>
            THEN "lsp" :> [startup_time |-> lsp_perf[1].execution_time,
                           memory_usage |-> lsp_perf[1].memory_usage]
            ELSE EmptyDict,
         claims_validation |->
            (IF semantic_results # <<>>
             THEN "quality" :> TargetMet(semantic_results[1].confidence_score)
             ELSE EmptyDict)
            @@
            (IF error_results # <<>>
             THEN "error_detection" :> "needs_baseline"
             ELSE EmptyDict)
            @@
            (IF perf_results # <<>>
             THEN "performance" :>
                    (/\ 2 * perf_results[1].execution_time.num
                            <= perf_results[1].execution_time.den
                     /\ perf_results[1].memory_usage <= 100)
             ELSE EmptyDict)]

\* after TerraformABTester(test_workspace): self.results = []; in this run
\* `trace` keeps the calls that raised
InitAB ==
    /\ prog = "ab_test"
    /\ pc = "create_files"
    /\ text1 = <<>> /\ text2 = <<>> /\ est = <<>>
    /\ call = <<>> /\ ret = <<>>
    /\ files = <<>>
    /\ workspace = "absent"
    /\ idx = 0
    /\ lsp_usage = <<>>
    /\ non_lsp_usage = <<>>
    /\ results = <<>>
    /\ count = 0 /\ detected = <<>> /\ errors = <<>> /\ report = <<>>
    /\ trace = <<>>

\* self.create_test_terraform_files(): an OSError leaves run_all_tests and is
\* caught by main()
ABCreateFiles ==
    /\ prog = "ab_test" /\ pc = "create_files"
    /\ \/ /\ pc' = "semantic_agent"
          /\ workspace' = "present"
       \/ /\ pc' = "failed"
          /\ workspace' \in {"absent", "present"}
    /\ UNCHANGED <<prog, estVars, files, idx, lsp_usage, non_lsp_usage, results,
                   trace, testVars>>

\* agent = self.create_agent(use_lsp) at the start of each of the three
\* tests: an exception leaves the test and run_all_tests
ABCreateAgent ==
    /\ prog = "ab_test"
    /\ pc \in {"semantic_agent", "error_agent", "startup_agent"}
    /\ \/ /\ pc' = CASE pc = "semantic_agent" -> "semantic"
                     [] pc = "error_agent"    -> "error_search"
                     [] pc = "startup_agent"  -> "startup"
          /\ idx' = IF pc = "startup_agent" THEN 0 ELSE 1
          /\ trace' = trace
       \/ /\ pc' = "failed"
          /\ idx' = idx
          /\ trace' = Append(trace, Event("create_agent", 0, TRUE, ServiceErrorText))
    /\ UNCHANGED <<prog, estVars, files, workspace, lsp_usage, non_lsp_usage, results, testVars>>

\* one of the ten try/except blocks of test_semantic_edit_quality; after the
\* tenth the TestResult is returned and appended to self.results
ABSemanticCheck ==
    /\ prog = "ab_test" /\ pc = "semantic"
    /\ \E reply \in CheckReplies :
          /\ reply.raises => Len(trace) < MaxToolFailures
          /\ LET check == SemanticChecks[idx]
                 success_count ==
                     IF ~reply.raises /\ CheckPasses(check, reply)
                     THEN count + 1 ELSE count
                 errors_detected ==
                     IF reply.raises
                     THEN Append(errors, [label |-> check.label, message |-> reply.text])
                     ELSE errors
             IN  IF idx < Len(SemanticChecks)
                 THEN /\ count' = success_count
                      /\ errors' = errors_detected
                      /\ idx' = idx + 1
                      /\ pc' = pc
                      /\ results' = results
                 ELSE /\ results' = Append(results,
                              SemanticTestResult(Modes[1], success_count, errors_detected))
                      /\ count' = 0
                      /\ errors' = <<>>
                      /\ idx' = 0
                      /\ pc' = "error_agent"
          /\ trace' = IF reply.raises
                      THEN Append(trace, Event("find_symbol", idx, TRUE, reply.text))
                      ELSE trace
    /\ UNCHANGED <<prog, estVars, files, workspace, lsp_usage, non_lsp_usage, detected, report>>

\* one pass of `for error_pattern in expected_errors`
ABErrorSearch ==
    /\ prog = "ab_test" /\ pc = "error_search"
    /\ \E reply \in SearchReplies :
          /\ reply.raises => Len(trace) < MaxToolFailures
          /\ detected' = IF ~reply.raises /\ PatternFound(reply)
                         THEN Append(detected, ExpectedErrors[idx])
                         ELSE detected
          /\ errors' = IF reply.raises
                       THEN Append(errors, [label   |-> "Could not search for",
                                            pattern |-> ExpectedErrors[idx],
                                            message |-> reply.text])
                       ELSE errors
          /\ trace' = IF reply.raises
                      THEN Append(trace, Event("search_for_pattern", idx, TRUE, reply.text))
                      ELSE trace
    /\ idx' = IF idx < Len(ExpectedErrors) THEN idx + 1 ELSE 0
    /\ pc' = IF idx < Len(ExpectedErrors) THEN pc ELSE "undefined_search"
    /\ UNCHANGED <<prog, estVars, files, workspace, lsp_usage, non_lsp_usage, results, count, report>>

\* `if use_lsp:` the search for "undefined" inside try / bare except, then
\* the detection rate and the TestResult appended to self.results
ABUndefinedSearch ==
    /\ prog = "ab_test" /\ pc = "undefined_search"
    /\ \E reply \in DetectReplies :
          /\ reply.raises => Len(trace) < MaxToolFailures
          /\ LET errors_detected ==
                     IF ~reply.raises /\ reply.symbols > 0
                     THEN Append(detected, "undefined_reference_detected")
                     ELSE detected
             IN  results' = Append(results,
                                   ErrorTestResult(Modes[1], errors_detected, errors))
          /\ trace' = IF reply.raises
                      THEN Append(trace, Event("find_undefined", 0, TRUE, reply.text))
                      ELSE trace
    /\ detected' = <<>>
    /\ errors' = <<>>
    /\ pc' = "startup_agent"
    /\ UNCHANGED <<prog, estVars, files, workspace, idx, lsp_usage, non_lsp_usage, count, report>>

\* test_startup_performance: find_tool.apply_ex(...) is not inside a try
ABStartup ==
    /\ prog = "ab_test" /\ pc = "startup"
    /\ \/ /\ Len(trace) < MaxToolFailures
          /\ trace' = Append(trace, Event("find_symbol", 0, TRUE, ServiceErrorText))
          /\ pc' = "failed"
          /\ results' = results
       \/ /\ \E sample \in PerfSamples :
                results' = Append(results, StartupTestResult(Modes[1], sample))
          /\ trace' = trace
          /\ pc' = "analyze"
    /\ UNCHANGED <<prog, estVars, files, workspace, idx, lsp_usage, non_lsp_usage, testVars>>

\* return self.analyze_results()
ABAnalyze ==
    /\ prog = "ab_test" /\ pc = "analyze"
    /\ report' = analyze_results(results)
    /\ pc' = "analyzed"
    /\ UNCHANGED <<prog, estVars, tokenVars, count, detected, errors>>

\* main(), finally: if os.path.exists(test_workspace):
\* shutil.rmtree(test_workspace, ignore_errors=True); an error of rmtree is
\* ignored and leaves the directory
ABCleanup ==
    /\ prog = "ab_test" /\ pc \in {"analyzed", "failed"}
    /\ workspace' \in {"absent", workspace}
    /\ pc' = "exited"
    /\ UNCHANGED <<prog, estVars, files, idx, lsp_usage, non_lsp_usage, results,
                   trace, testVars>>

NextAB ==
    \/ ABCreateFiles
    \/ ABCreateAgent
    \/ ABSemanticCheck
    \/ ABErrorSearch
    \/ ABUndefinedSearch
    \/ ABStartup
    \/ ABAnalyze
    \/ ABCleanup

SpecAB == InitAB /\ [][NextAB]_vars

-----------------------------------------------------------------------------
(* The four scripts *)

InitScripts == InitToken \/ InitQuality \/ InitDetect \/ InitAB

NextScripts == NextToken \/ NextQuality \/ NextDetect \/ NextAB

SpecScripts == InitScripts /\ [][NextScripts]_vars

-----------------------------------------------------------------------------
(* The two scripts that give a '>= 95' verdict *)

InitVerdicts == InitAB \/ InitQuality

NextVerdicts == NextAB \/ NextQuality

SpecVerdicts == InitVerdicts /\ [][NextVerdicts]_vars

-----------------------------------------------------------------------------
(* Properties of the scenario loops *)

\* the calls of the history made inside a scenario loop
LoopOps == {"lsp", "non_lsp", "search", "detect"}

\* the loop of the running script is over
LoopOver ==
    \/ prog = "token_benchmark" /\ pc \in {"report", "done"}
    \/ prog = "semantic_quality" /\ pc \in {"summary", "save", "done"}
    \/ prog = "error_detection"
          /\ pc \in {"lsp_summary", "traditional", "compare", "save", "done"}
    \/ prog \in {"semantic_quality", "error_detection"}
          /\ pc = "failed" /\ report # <<>>

\* the number of scenarios of the loop of the running script
LoopLength ==
    CASE prog = "token_benchmark"  -> NumScenarios
      [] prog = "semantic_quality" -> Len(QualityScenarios)
      [] prog = "error_detection"  -> Len(KnownErrors)

\* the name the i-th result of the running script must carry
LoopName(i) ==
    CASE prog = "token_benchmark"  -> ScenarioNames[i]
      [] prog = "semantic_quality" -> QualityScenarios[i].name
      [] prog = "error_detection"  -> KnownErrors[i].type

\* the name the i-th result carries
ResultName(i) ==
    CASE prog = "token_benchmark"  -> results[i].scenario
      [] prog = "semantic_quality" -> results[i].scenario
      [] prog = "error_detection"  -> results[i].error

\* the success flag of the result produced for the call of event e
ResultFlag(e) ==
    CASE e.op = "lsp"     -> results[e.scenario].lsp_usage.success
      [] e.op = "non_lsp" -> results[e.scenario].non_lsp_usage.success
      [] e.op = "search"  -> results[e.scenario].success
      [] e.op = "detect"  -> results[e.scenario].detected

\* C1: an exception of the semantic call of a scenario never leaves the loop
\* of run_benchmark_scenarios, test_semantic_operations or
\* test_lsp_error_detection: the result of a raising scenario has its success
\* flag false, the later scenarios are run, and once the loop is over there
\* is exactly one result per scenario, in scenario order.
C1_NoPropagation ==
    prog \in {"token_benchmark", "semantic_quality", "error_detection"} =>
        /\ \A k \in 1..Len(trace) :
              (trace[k].op \in LoopOps /\ trace[k].raised
                    /\ trace[k].scenario <= Len(results))
                 => ~ResultFlag(trace[k])
        /\ (pc = "lsp" /\ idx > 1) =>
              \A k \in 1..Len(trace) : trace[k].op \in LoopOps => trace[k].scenario < idx
        /\ (pc = "non_lsp" /\ trace[Len(trace)].raised) => ~lsp_usage.success
        /\ (pc = "failed" /\ ~LoopOver) =>
              /\ Len(trace) = 1
              /\ trace[1].op = "create_agent"
        /\ LoopOver =>
              /\ Len(results) = LoopLength
              /\ \A i \in 1..Len(results) : ResultName(i) = LoopName(i)

\* C1 witness: the benchmark loop is over, the semantic call of its first
\* scenario raised and the one of its last scenario did not.
C1_Witness ==
    /\ prog = "token_benchmark" /\ pc = "report"
    /\ \E k \in 1..Len(trace) :
          trace[k].op = "lsp" /\ trace[k].scenario = 1 /\ trace[k].raised
    /\ ~results[1].lsp_usage.success
    /\ results[NumScenarios].lsp_usage.success

\* the error text a result object holds: its `error_message` or `error`
\* field, the empty text when it has neither
ErrorTextOf(rec) ==
    IF "error_message" \in DOMAIN rec THEN rec.error_message
    ELSE IF "error" \in DOMAIN rec THEN rec.error
    ELSE <<>>

\* the result object produced for the call of event e
ResultFor(e) ==
    CASE e.op = "lsp"     -> results[e.scenario].lsp_usage
      [] e.op = "non_lsp" -> results[e.scenario].non_lsp_usage
      [] e.op = "search"  -> results[e.scenario]
      [] e.op = "detect"  -> results[e.scenario]

\* C2: whenever the underlying call of a scenario raised, the result
\* produced for it holds the non-empty message of the exception.
C2_ErrorRetained ==
    prog \in {"token_benchmark", "semantic_quality", "error_detection"} =>
        \A k \in 1..Len(trace) :
            (trace[k].op \in LoopOps /\ trace[k].raised
                  /\ trace[k].scenario <= Len(results))
               => /\ ErrorTextOf(ResultFor(trace[k])) # <<>>
                  /\ ErrorTextOf(ResultFor(trace[k])) = trace[k].message

-----------------------------------------------------------------------------
(* Properties of the verdicts *)

\* C9: a '>= 95' verdict is met exactly when the value is at least 95 (97 is
\* met, 40 is not): claims_validation['quality'] of analyze_results is true
\* iff the semantic success rate is at least 95, and target_met of
\* test_semantic_operations is true iff success_rate is at least 95.
C9_VerdictAt95 ==
    /\ TargetMet(Frac(97, 1))
    /\ ~TargetMet(Frac(40, 1))
    /\ (prog = "ab_test" /\ pc = "analyzed") =>
          (report.claims_validation["quality"]
              <=> 100 * results[1].details.success_count
                     >= 95 * results[1].details.total_tests)
    /\ (prog = "semantic_quality" /\ report # <<>>) =>
          /\ report.success_rate.num * report.total_scenarios
                = 100 * report.successful_operations * report.success_rate.den
          /\ report.target_met
                <=> 100 * report.successful_operations >= 95 * report.total_scenarios

\* C9 witness: nine of the ten checks passed, a rate of 90: the test result
\* is a success and the quality claim is not met.
C9_Witness ==
    /\ prog = "ab_test" /\ pc = "analyzed"
    /\ results[1].details.success_count = 9
    /\ results[1].success
    /\ ~report.claims_validation["quality"]

\* C10: the analysis of a run gives the error-detection claim the verdict
\* 'needs_baseline', and no pass/fail verdict, whenever the results hold no
\* Non-LSP error-detection result.
C10_NeedsBaseline ==
    (prog = "ab_test" /\ pc = "analyzed") =>
        LET error_results == ResultsNamed(results, "error_detection_confidence")
        IN  ResultsOfMode(error_results, "Non-LSP") = <<>> =>
               /\ "error_detection" \in DOMAIN report.claims_validation
               /\ report.claims_validation["error_detection"] = "needs_baseline"

\* C10 witness: an analysed run whose only error-detection result is the LSP
\* one, with every expected pattern found.
C10_Witness ==
    /\ prog = "ab_test" /\ pc = "analyzed"
    /\ ResultsOfMode(ResultsNamed(results, "error_detection_confidence"), "Non-LSP") = <<>>
    /\ \E i \in 1..Len(results) :
          /\ results[i].test_name = "error_detection_confidence"
          /\ results[i].mode = "LSP"
          /\ results[i].details.detected_errors = Len(ExpectedErrors)
    /\ report.claims_validation["error_detection"] = "needs_baseline"

-----------------------------------------------------------------------------
(* The `if` that decides whether a semantic query counts, applied to one    *)
(* query of test_semantic_edit_quality or of test_lsp_error_detection       *)

ThresholdCalls ==
    { [test |-> "semantic_edit_quality", index |-> i, reply |-> r] :
        i \in 1..Len(SemanticChecks), r \in CheckReplies } \cup
    { [test |-> "lsp_error_detection", index |-> i, reply |-> r] :
        i \in 1..Len(KnownErrors), r \in DetectReplies }

InitThreshold ==
    /\ prog = "threshold"
    /\ pc = "call"
    /\ text1 = <<>> /\ text2 = <<>> /\ est = <<>>
    /\ call \in ThresholdCalls /\ ret = <<>>
    /\ files = <<>>
    /\ workspace = "absent"
    /\ idx = 0
    /\ lsp_usage = <<>>
    /\ non_lsp_usage = <<>>
    /\ results = <<>>
    /\ count = 0 /\ detected = <<>> /\ errors = <<>> /\ report = <<>>
    /\ trace = <<>>

\* one try block: the query is made and counted, or not
ApplyThreshold ==
    /\ prog = "threshold" /\ pc = "call"
    /\ ret' = [counted |->
                 IF call.test = "semantic_edit_quality"
                 THEN ~call.reply.raises
                        /\ CheckPasses(SemanticChecks[call.index], call.reply)
                 ELSE DetectionAttempt(KnownErrors[call.index], call.reply).detected]
    /\ pc' = "returned"
    /\ UNCHANGED <<prog, text1, text2, est, call, tokenVars, testVars>>

NextThreshold == ApplyThreshold

SpecThreshold == InitThreshold /\ [][NextThreshold]_vars

\* C11: a semantic query that returns counts as detected / successful
\* exactly when it returned at least one symbol, whatever the scenario or the
\* check.
C11_SameThreshold ==
    (prog = "threshold" /\ pc = "returned" /\ ~call.reply.raises) =>
        (ret.counted <=> call.reply.symbols >= 1)

\* the checks of test_semantic_edit_quality that look for a name, and the
\* number of symbols each of the other checks asks for
NameChecks == {2, 5}

SymbolsAskedFor == <<1, 1, 2, 2, 1, 5, 5, 1, 1, 5>>

\* C11 as amended: in test_lsp_error_detection a query counts as a detection
\* exactly when it returns at least one symbol, for every known error; in
\* test_semantic_edit_quality the threshold differs per check: checks 1, 8, 9
\* ask for one symbol, checks 3, 4 for two, checks 6, 7, 10 for five, and
\* checks 2 and 5 for a symbol whose name_path holds the expected name; a
\* query that raises never counts.
C11_Amended ==
    (prog = "threshold" /\ pc = "returned") =>
        /\ call.reply.raises => ~ret.counted
        /\ (~call.reply.raises /\ call.test = "lsp_error_detection") =>
              (ret.counted <=> call.reply.symbols >= 1)
        /\ (~call.reply.raises /\ call.test = "semantic_edit_quality") =>
              IF call.index \in NameChecks
              THEN ret.counted <=> call.reply.expected
              ELSE ret.counted <=> call.reply.symbols >= SymbolsAskedFor[call.index]

\* C11 witness: the query of check 6 (outputs) returned two symbols and the
\* check did not count.
C11_Witness ==
    /\ prog = "threshold" /\ pc = "returned"
    /\ call.test = "semantic_edit_quality" /\ call.index = 6
    /\ ~call.reply.raises /\ call.reply.symbols = 2
    /\ ~ret.counted

-----------------------------------------------------------------------------
(* Properties of the text-based scan *)

\* test_traditional_error_detection has returned to main()
ScanReturned ==
    prog = "error_detection" /\ pc \in {"compare", "save", "done"}

PatternSet == { ErrorPatterns[i] : i \in 1..Len(ErrorPatterns) }

-----------------------------------------------------------------------------
(* The detection rate of the three detection tests, computed for a list of  *)
(* expected defects of any length up to MaxExpected                         *)

RateSites ==
    {"test_lsp_error_detection", "test_traditional_error_detection",
     "test_error_detection_confidence"}

\* found: the detections counted; expected: the length of the list of
\* expected defects (the LSP-only query of test_error_detection_confidence
\* may add one detection to those of the list)
RateCalls ==
    { [site |-> s, found |-> f, expected |-> e] :
        s \in RateSites, e \in 0..MaxExpected, f \in 0..MaxExpected + 1 }

InitRate ==
    /\ prog = "detection_rate"
    /\ pc = "call"
    /\ text1 = <<>> /\ text2 = <<>> /\ est = <<>>
    /\ call \in { c \in RateCalls :
                    c.found <= c.expected
                       + (IF c.site = "test_error_detection_confidence" THEN 1 ELSE 0) }
    /\ ret = <<>>
    /\ files = <<>>
    /\ workspace = "absent"
    /\ idx = 0
    /\ lsp_usage = <<>>
    /\ non_lsp_usage = <<>>
    /\ results = <<>>
    /\ count = 0 /\ detected = <<>> /\ errors = <<>> /\ report = <<>>
    /\ trace = <<>>

\* the division of line 252 / 301 / 559
ApplyRate ==
    /\ prog = "detection_rate" /\ pc = "call"
    /\ LET detection_rate == DetectionRate(call.found, call.expected)
       IN  /\ ret' = [detection_rate |-> detection_rate]
           /\ pc' = IF Raised(detection_rate) THEN "raised" ELSE "returned"
    /\ UNCHANGED <<prog, text1, text2, est, call, tokenVars, testVars>>

NextRate == ApplyRate

SpecRate == InitRate /\ [][NextRate]_vars

-----------------------------------------------------------------------------
(* Properties of the error-detection test of the A/B suite *)

\* the queries of test_error_detection_confidence that raised
DetectionQueriesRaised ==
    { k \in 1..Len(trace) :
        trace[k].raised /\ trace[k].op \in {"search_for_pattern", "find_undefined"} }

\* C14: every exception of a query made during error detection adds no
\* detection and is recorded as a failure in the returned result, the
\* LSP-only search for "undefined" included.
C14_FailuresRecorded ==
    (prog = "ab_test" /\ Len(results) >= 2) =>
        LET r == results[2]
        IN  /\ Len(r.errors_detected) = Cardinality(DetectionQueriesRaised)
            /\ r.details.detected_errors
                  <= Len(ExpectedErrors) + 1 - Cardinality(DetectionQueriesRaised)

-----------------------------------------------------------------------------
(* Properties of the token benchmark run *)

\* a file of the scenario being recorded is missing from the workspace
ScenarioFileMissing ==
    \E k \in 1..Len(ScenarioFiles[idx]) : files[ScenarioFiles[idx][k]] = "missing"

\* C15: when a fixture file a scenario names is missing, the Non-LSP
\* operation of that scenario is reported with success = false (and the
\* batch goes on): it is never reported with success = true.
C15_MissingFileFails ==
    (prog = "token_benchmark" /\ pc = "record" /\ ScenarioFileMissing) =>
        ~non_lsp_usage.success

-----------------------------------------------------------------------------
(* Properties of the workspace *)

\* main() of the running script has returned
MainReturned ==
    \/ prog = "ab_test" /\ pc = "exited"
    \/ prog \in {"token_benchmark", "semantic_quality", "error_detection"}
          /\ pc \in {"done", "failed"}

\* C16: after main() of a benchmark returns, whether the run completed or an
\* exception was raised, the workspace directory of the run no longer
\* exists.
C16_WorkspaceDeleted ==
    MainReturned => workspace = "absent"

-----------------------------------------------------------------------------
(* Fixture materialization: the create_* method of each tester applied to a *)
(* workspace directory. A directory tree is a function from the names of    *)
(* the files present to their contents; a content is the sequence of the    *)
(* texts written to the file since it was last truncated.                   *)

Testers ==
    {"comprehensive_ab_test", "error_detection_test", "semantic_quality_test",
     "token_benchmark_terraform"}

\* the workspace paths of two runs
WorkspacePaths == {"/tmp/workspace_a", "/tmp/workspace_b"}

\* a mutant of FixtureWrites: the workspace path is interpolated into the
\* text of the first file
FixtureWrites_path(tester, workspace_path) ==
    CASE tester = "comprehensive_ab_test" ->
            << [name |-> "main.tf",      text |-> workspace_path],
               [name |-> "variables.tf", text |-> "ab.variables_tf"],
               [name |-> "outputs.tf",   text |-> "ab.outputs_tf"],
               [name |-> "errors.tf",    text |-> "ab.errors_tf"],
               [name |-> "user_data.sh", text |-> "ab.user_data"] >>
      [] tester = "error_detection_test" ->
            << [name |-> "syntax_errors.tf",    text |-> workspace_path],
               [name |-> "logic_errors.tf",     text |-> "errors.logic_errors_tf"],
               [name |-> "reference_errors.tf", text |-> "errors.reference_errors_tf"],
               [name |-> "variables_errors.tf", text |-> "errors.variables_errors_tf"] >>
      [] tester = "semantic_quality_test" ->
            << [name |-> "main.tf",      text |-> workspace_path],
               [name |-> "variables.tf", text |-> "quality.variables_tf"] >>
      [] tester = "token_benchmark_terraform" ->
            << [name |-> "main.tf",      text |-> workspace_path],
               [name |-> "variables.tf", text |-> "token.variables_tf"],
               [name |-> "outputs.tf",   text |-> "token.outputs_tf"],
               [name |-> "user_data.sh", text |-> "token.user_data"] >>

\* the open(f"{workspace}/<name>", "w") / f.write(<literal>) pairs of the
\* create_* method of a tester, in program order; a text is named after the
\* string literal written (none of the literals is an f-string)
FixtureWrites(tester, workspace_path) ==
    CASE tester = "comprehensive_ab_test" ->
            << [name |-> "main.tf",      text |-> "ab.main_tf"],
               [name |-> "variables.tf", text |-> "ab.variables_tf"],
               [name |-> "outputs.tf",   text |-> "ab.outputs_tf"],
               [name |-> "errors.tf",    text |-> "ab.errors_tf"],
               [name |-> "user_data.sh", text |-> "ab.user_data"] >>
      [] tester = "error_detection_test" ->
            << [name |-> "syntax_errors.tf",    text |-> "errors.syntax_errors_tf"],
               [name |-> "logic_errors.tf",     text |-> "errors.logic_errors_tf"],
               [name |-> "reference_errors.tf", text |-> "errors.reference_errors_tf"],
               [name |-> "variables_errors.tf", text |-> "errors.variables_errors_tf"] >>
      [] tester = "semantic_quality_test" ->
            << [name |-> "main.tf",      text |-> "quality.main_tf"],
               [name |-> "variables.tf", text |-> "quality.variables_tf"] >>
      [] tester = "token_benchmark_terraform" ->
            << [name |-> "main.tf",      text |-> "token.main_tf"],
               [name |-> "variables.tf", text |-> "token.variables_tf"],
               [name |-> "outputs.tf",   text |-> "token.outputs_tf"],
               [name |-> "user_data.sh", text |-> "token.user_data"] >>

\* a mutant of WriteFile: the file is opened with "a" instead of "w"
WriteFile_append(tree, w) ==
    [n \in DOMAIN tree \cup {w.name} |->
        IF n = w.name
        THEN (IF n \in DOMAIN tree THEN tree[n] ELSE <<>>) \o <<w.text>>
        ELSE tree[n]]

\* with open(name, "w") as f: f.write(text): the file is created or
\* truncated, then written
WriteFile(tree, w) ==
    [n \in DOMAIN tree \cup {w.name} |->
        IF n = w.name THEN <<w.text>> ELSE tree[n]]

RECURSIVE WriteAll(_, _)
WriteAll(tree, writes) ==
    IF writes = <<>> THEN tree
    ELSE WriteAll(WriteFile(tree, Head(writes)), Tail(writes))

\* os.makedirs(workspace, exist_ok=True), then the writes
Materialize(tester, workspace_path, tree) ==
    WriteAll(tree, FixtureWrites(tester, workspace_path))

\* an empty directory
EmptyTree == [n \in {} |-> <<>>]

\* the names a tester writes, and a *.tf file it does not write
FixtureNames(tester) ==
    { FixtureWrites(tester, "")[i].name : i \in 1..Len(FixtureWrites(tester, "")) }

OtherNames == {"notes.tf"}

\* what the workspace may hold before the call: any of the files, each with
\* a text of an earlier version or with the text the tester writes
TreesBefore(tester) ==
    UNION { [D -> {"stale", "same"}] : D \in SUBSET (FixtureNames(tester) \cup OtherNames) }

TreeOf(tester, marks) ==
    [n \in DOMAIN marks |->
        IF marks[n] = "same" /\ n \in FixtureNames(tester)
        THEN <<(CHOOSE w \in { FixtureWrites(tester, "")[i] :
                                 i \in 1..Len(FixtureWrites(tester, "")) } :
                    w.name = n).text>>
        ELSE <<"old text">>]

MaterializeCalls ==
    UNION { { [tester |-> t, workspace_path |-> p, before |-> TreeOf(t, m)] :
                p \in WorkspacePaths, m \in TreesBefore(t) } : t \in Testers }

InitMaterialize ==
    /\ prog = "materialize"
    /\ pc = "call"
    /\ text1 = <<>> /\ text2 = <<>> /\ est = <<>>
    /\ call \in MaterializeCalls
    /\ ret = [once |-> EmptyTree, twice |-> EmptyTree]
    /\ files = <<>>
    /\ workspace = "absent"
    /\ idx = 0
    /\ lsp_usage = <<>>
    /\ non_lsp_usage = <<>>
    /\ results = <<>>
    /\ count = 0 /\ detected = <<>> /\ errors = <<>> /\ report = <<>>
    /\ trace = <<>>

\* the first call of the create_* method on the workspace
MaterializeOnce ==
    /\ prog = "materialize" /\ pc = "call"
    /\ ret' = [once  |-> Materialize(call.tester, call.workspace_path, call.before),
               twice |-> EmptyTree]
    /\ pc' = "once"
    /\ UNCHANGED <<prog, text1, text2, est, call, tokenVars, testVars>>

\* a second call on the same workspace
MaterializeTwice ==
    /\ prog = "materialize" /\ pc = "once"
    /\ ret' = [ret EXCEPT !.twice =
                  Materialize(call.tester, call.workspace_path, ret.once)]
    /\ pc' = "twice"
    /\ UNCHANGED <<prog, text1, text2, est, call, tokenVars, testVars>>

NextMaterialize ==
    \/ MaterializeOnce
    \/ MaterializeTwice

SpecMaterialize == InitMaterialize /\ [][NextMaterialize]_vars

-----------------------------------------------------------------------------
(* Properties of fixture materialization *)

\* C17: calling the create_* method twice on the same workspace succeeds
\* both times and leaves the same files with the same contents as one call.
C17_Idempotent ==
    (prog = "materialize" /\ pc = "twice") =>
        /\ ret.twice = ret.once
        /\ DOMAIN ret.twice = DOMAIN call.before \cup FixtureNames(call.tester)
        /\ \A n \in FixtureNames(call.tester) : Len(ret.twice[n]) = 1

\* C17 witness: the workspace held an older main.tf and a file the tester
\* does not write; after two calls main.tf holds the fixture text once and
\* the other file is still there.
C17_Witness ==
    /\ prog = "materialize" /\ pc = "twice"
    /\ call.tester = "comprehensive_ab_test"
    /\ DOMAIN call.before = {"main.tf", "notes.tf"}
    /\ call.before["main.tf"] = <<"old text">>
    /\ ret.twice["main.tf"] = <<"ab.main_tf">>
    /\ ret.twice["notes.tf"] = <<"old text">>
    /\ DOMAIN ret.twice =
          {"main.tf", "variables.tf", "outputs.tf", "errors.tf", "user_data.sh", "notes.tf"}

-----------------------------------------------------------------------------
(* Properties of the order of execution *)

\* C19: the run is sequential and ordered: the fixtures are there before any
\* operation runs; the history holds, after the creation of the agent, the
\* semantic operation of scenario 1, its naive operation, the semantic
\* operation of scenario 2, and so on; the results are appended in catalog
\* order, each after both operations of its scenario.
C19_Sequential ==
    prog = "token_benchmark" =>
        /\ trace # <<>> =>
              /\ trace[1].op = "create_agent"
              /\ workspace = "present"
        /\ \A k \in 2..Len(trace) :
              /\ trace[k].scenario = k \div 2
              /\ trace[k].op = IF k % 2 = 0 THEN "lsp" ELSE "non_lsp"
        /\ \A i \in 1..Len(results) :
              /\ results[i].scenario = ScenarioNames[i]
              /\ 2 * i + 1 <= Len(trace)
        /\ pc = "lsp" => Len(results) = idx - 1 /\ Len(trace) = 2 * idx - 1
        /\ pc = "non_lsp" => Len(results) = idx - 1 /\ Len(trace) = 2 * idx
        /\ pc = "record" => Len(results) = idx - 1 /\ Len(trace) = 2 * idx + 1

\* C19 witness: the loop is over: every scenario ran its two operations and
\* the list holds the results of all of them.
C19_Witness ==
    /\ prog = "token_benchmark" /\ pc = "report"
    /\ Len(trace) = 2 * NumScenarios + 1
    /\ trace[Len(trace)].op = "non_lsp"
    /\ trace[Len(trace)].scenario = NumScenarios
    /\ Len(results) = NumScenarios
    /\ results[NumScenarios].scenario = ScenarioNames[NumScenarios]

-----------------------------------------------------------------------------
(* measure_performance applied to the readings taken before and after the   *)
(* measured block                                                           *)

\* a mutant of measure_performance: the memory delta is not clamped
measure_performance_signed(start_time, start_memory, end_time, end_memory) ==
    [startup_time    |-> end_time - start_time,
     memory_usage_mb |-> end_memory - start_memory,
     operation_time  |-> end_time - start_time]

\* measure_performance: the PerformanceMetrics stored in
\* self.last_performance after the block
measure_performance(start_time, start_memory, end_time, end_memory) ==
    [startup_time    |-> end_time - start_time,
     memory_usage_mb |-> Max(end_memory - start_memory, 0),
     operation_time  |-> end_time - start_time]

InitMeasure ==
    /\ prog = "measure_performance"
    /\ pc = "call"
    /\ text1 = <<>> /\ text2 = <<>> /\ est = <<>>
    /\ call \in [start_time : 0..MaxClock, end_time : 0..MaxClock,
                 start_memory : 0..MaxRss, end_memory : 0..MaxRss]
    /\ ret = <<>>
    /\ files = <<>>
    /\ workspace = "absent"
    /\ idx = 0
    /\ lsp_usage = <<>>
    /\ non_lsp_usage = <<>>
    /\ results = <<>>
    /\ count = 0 /\ detected = <<>> /\ errors = <<>> /\ report = <<>>
    /\ trace = <<>>

\* the block ran to its end: the readings after it are taken and the
\* metrics stored
ApplyMeasure ==
    /\ prog = "measure_performance" /\ pc = "call"
    /\ ret' = measure_performance(call.start_time, call.start_memory,
                                  call.end_time, call.end_memory)
    /\ pc' = "returned"
    /\ UNCHANGED <<prog, text1, text2, est, call, tokenVars, testVars>>

NextMeasure == ApplyMeasure

SpecMeasure == InitMeasure /\ [][NextMeasure]_vars

\* C20: the memory delta recorded by measure_performance is never negative:
\* it is max(end_rss - start_rss, 0), so a decrease is reported as 0.
C20_MemoryDelta ==
    (prog = "measure_performance" /\ pc = "returned") =>
        /\ ret.memory_usage_mb >= 0
        /\ call.end_memory >= call.start_memory =>
              ret.memory_usage_mb = call.end_memory - call.start_memory
        /\ call.end_memory < call.start_memory => ret.memory_usage_mb = 0

\* C20 witness: the process memory went from 3 to 1 during the block.
C20_Witness ==
    /\ prog = "measure_performance" /\ pc = "returned"
    /\ call.start_memory = 3 /\ call.end_memory = 1
    /\ ret.memory_usage_mb = 0

-----------------------------------------------------------------------------
(* analyze_results and generate_report applied to lists of records, twice   *)
(* in a row                                                                 *)

\* the lists of at most n elements of S
ListsUpTo(S, n) == UNION { [1..k -> S] : k \in 0..n }

\* TokenUsage records of the semantic operation: of the scenario of the
\* result or of another one, with or without tokens, failed or not
LspSamples ==
    { TokenUsage(operation, "LSP",
                 [input_tokens |-> i, output_tokens |-> 0, total_tokens |-> i],
                 0, ok) :
        operation \in {ScenarioNames[1], ScenarioNames[2]},
        i \in {0, 1}, ok \in BOOLEAN }

\* TokenUsage records of the naive operation: no token (an empty file set)
\* or two
NonLspSamples ==
    { TokenUsage(ScenarioNames[1], "Non-LSP",
                 [input_tokens |-> i, output_tokens |-> 0, total_tokens |-> i],
                 0, TRUE) :
        i \in {0, 2} }

\* BenchmarkResult(scenario=..., lsp_usage=..., non_lsp_usage=..., ...)
BenchmarkSamples ==
    { BenchmarkResultOf(ScenarioNames[1], l, n) :
        l \in LspSamples, n \in NonLspSamples }

\* TestResult records as the three tests of the A/B suite return them
TestResultSamples ==
    { SemanticTestResult(Modes[1], c, <<>>) : c \in {9, 10} }
    \cup { ErrorTestResult(Modes[1], <<>>, <<>>) }
    \cup { StartupTestResult(Modes[1], sample) : sample \in PerfSamples }

ValidateCalls ==
    { [fn |-> "analyze_results", input |-> rs] :
        rs \in ListsUpTo(TestResultSamples, MaxResults) }
    \cup
    { [fn |-> "generate_report", input |-> rs] :
        rs \in ListsUpTo(BenchmarkSamples, MaxResults) }

\* `results` is the list the function is given (self.results of the tester,
\* the argument of generate_report)
InitValidate ==
    /\ prog = "validate"
    /\ pc = "call"
    /\ text1 = <<>> /\ text2 = <<>> /\ est = <<>>
    /\ call \in ValidateCalls
    /\ ret = <<>>
    /\ files = <<>>
    /\ workspace = "absent"
    /\ idx = 0
    /\ lsp_usage = <<>>
    /\ non_lsp_usage = <<>>
    /\ results = call.input
    /\ count = 0 /\ detected = <<>> /\ errors = <<>> /\ report = <<>>
    /\ trace = <<>>

\* what the function returns for the list as it is now
Validation ==
    IF call.fn = "analyze_results"
    THEN analyze_results(results)
    ELSE generate_report(results)

\* a mutant of ApplyValidate: the function pops the first record of its input
ApplyValidate_consume ==
    /\ prog = "validate" /\ pc \in {"call", "returned"}
    /\ IF pc = "call"
       THEN /\ ret' = Validation
            /\ report' = report
            /\ pc' = "returned"
       ELSE /\ report' = Validation
            /\ ret' = ret
            /\ pc' = "returned_twice"
    /\ results' = IF results = <<>> THEN results ELSE Tail(results)
    /\ UNCHANGED <<prog, text1, text2, est, call, files, workspace, idx,
                   lsp_usage, non_lsp_usage, trace, count, detected, errors>>

\* a call of the function: the first result is kept in `ret`, the result of
\* the second call in `report`; neither function assigns to its input list
\* or to a record of it
ApplyValidate ==
    /\ prog = "validate" /\ pc \in {"call", "returned"}
    /\ IF pc = "call"
       THEN /\ ret' = Validation
            /\ report' = report
            /\ pc' = "returned"
       ELSE /\ report' = Validation
            /\ ret' = ret
            /\ pc' = "returned_twice"
    /\ results' = results
    /\ UNCHANGED <<prog, text1, text2, est, call, files, workspace, idx,
                   lsp_usage, non_lsp_usage, trace, count, detected, errors>>

NextValidate == ApplyValidate

SpecValidate == InitValidate /\ [][NextValidate]_vars

SameScenario(r) ==
    /\ r.scenario = r.lsp_usage.operation
    /\ r.scenario = r.non_lsp_usage.operation
    /\ r.lsp_usage.method = "LSP"
    /\ r.non_lsp_usage.method = "Non-LSP"

\* C23: every BenchmarkResult pairs two usages of the scenario it names, and
\* a pair whose scenario identifiers differ is rejected: it is never part of
\* a list generate_report has aggregated.
C23_SameScenario ==
    /\ prog = "token_benchmark" =>
          \A i \in 1..Len(results) : SameScenario(results[i])
    /\ (prog = "validate" /\ call.fn = "generate_report"
            /\ pc = "returned" /\ ~ret.raised) =>
          \A i \in 1..Len(results) : SameScenario(results[i])

\* C24: every ratio of generate_report has a floored, non-zero denominator:
\* generate_report raises no division error, whatever the list it is given.
C24_NoDivisionError ==
    (prog = "validate" /\ call.fn = "generate_report" /\ pc # "call") =>
        ~ret.raised

-----------------------------------------------------------------------------
(* Properties of the run of the A/B suite *)

\* C22: the verdicts are reported whatever calls failed: when main() of the
\* A/B suite has returned, analyze_results has produced claims_validation,
\* also after a failure while creating the agent or during the startup query.
C22_VerdictsReported ==
    (prog = "ab_test" /\ pc = "exited") => "claims_validation" \in DOMAIN report

\* the TestResult of test_startup_performance in self.results
StartupResult == ResultsNamed(results, "startup_performance")[1]

\* C26: the performance claim is validated exactly when the startup time is
\* at most 0.5 s and the memory usage is strictly below 100 MB.
C26_PerformanceVerdict ==
    (prog = "ab_test" /\ pc = "analyzed") =>
        report.claims_validation["performance"]
            = (/\ 2 * StartupResult.execution_time.num
                      <= StartupResult.execution_time.den
               /\ StartupResult.memory_usage < 100)

\* 0 <= rate <= 100
RateInRange(rate) == rate.num >= 0 /\ FracLeq(rate, 100)

\* C27: whatever the service calls do, no more errors are detected than are
\* expected and the detection rate lies in [0, 100], in
\* test_error_detection_confidence, test_lsp_error_detection and
\* test_traditional_error_detection.
C27_RateWithinRange ==
    /\ (prog = "ab_test" /\ Len(results) >= 2) =>
          /\ results[2].details.detected_errors <= results[2].details.expected_errors
          /\ RateInRange(results[2].confidence_score)
    /\ (prog = "error_detection" /\ "detection_rate" \in DOMAIN report) =>
          /\ report.detected_errors <= report.total_errors
          /\ RateInRange(report.detection_rate)
    /\ (prog = "error_detection" /\ "traditional_results" \in DOMAIN report) =>
          /\ report.lsp_results.detected_errors <= report.lsp_results.total_errors
          /\ RateInRange(report.lsp_results.detection_rate)
          /\ report.traditional_results.patterns_detected
                <= report.traditional_results.total_patterns
          /\ RateInRange(report.traditional_results.traditional_detection_rate)

-----------------------------------------------------------------------------
(* Properties of the quality verdicts *)

\* the semantic checks of the A/B suite that raised
ChecksRaised ==
    { k \in 1..Len(trace) :
        trace[k].raised /\ trace[k].op = "find_symbol" /\ trace[k].scenario >= 1 }

\* the scenarios of test_semantic_operations whose entry says success
EntriesSucceeded(entries) == { i \in 1..Len(entries) : entries[i].success }

\* C29: with 8 scenarios and 10 checks the 95% claim is met iff every check
\* succeeded: target_met iff 8 of 8, the quality verdict iff success_count is
\* 10, TestResult.success iff success_count is at least 9; success_count
\* never exceeds the number of checks and a check that raised is not counted.
C29_AllChecksNeeded ==
    /\ (prog = "semantic_quality" /\ "target_met" \in DOMAIN report) =>
          /\ report.total_scenarios = 8
          /\ report.target_met <=> (report.successful_operations = 8)
          /\ report.successful_operations <= report.total_scenarios
          /\ report.successful_operations
                = Cardinality(EntriesSucceeded(report.results))
          /\ \A k \in 1..Len(trace) :
                (trace[k].op = "search" /\ trace[k].raised)
                   => ~report.results[trace[k].scenario].success
    /\ (prog = "ab_test" /\ Len(results) >= 1) =>
          LET r == results[1]
          IN  /\ r.details.total_tests = 10
              /\ r.success <=> (r.details.success_count >= 9)
              /\ r.details.success_count <= r.details.total_tests
              /\ r.details.success_count
                    <= r.details.total_tests - Cardinality(ChecksRaised)
              /\ pc = "analyzed" =>
                    (report.claims_validation["quality"]
                        <=> (r.details.success_count = 10))

\* C29 witness: nine of the ten checks succeeded and one raised: the
\* TestResult says success and the quality claim is not met.
C29_Witness ==
    /\ prog = "ab_test" /\ pc = "analyzed"
    /\ results[1].details.success_count = 9
    /\ Cardinality(ChecksRaised) = 1
    /\ results[1].success
    /\ ~report.claims_validation["quality"]

-----------------------------------------------------------------------------
(* Properties of the token counts *)

\* total_tokens == input_tokens + output_tokens, all three non-negative
CountsAddUp(usage) ==
    /\ usage.total_tokens = usage.input_tokens + usage.output_tokens
    /\ usage.input_tokens >= 0
    /\ usage.output_tokens >= 0
    /\ usage.total_tokens >= 0

\* the sum over the results of the Non-LSP total minus the LSP total
RECURSIVE SavingsOf(_)
SavingsOf(rs) ==
    IF rs = <<>> THEN 0
    ELSE Head(rs).non_lsp_usage.total_tokens - Head(rs).lsp_usage.total_tokens
            + SavingsOf(Tail(rs))

\* C28: every TokenUsage of the two operations, failed or not, has
\* total_tokens = input_tokens + output_tokens with the three non-negative;
\* a failed semantic operation counts the tokens of its error text, in the
\* token_savings of its scenario and in the totals of generate_report.
C28_TotalsAddUp ==
    prog = "token_benchmark" =>
        /\ pc \in {"non_lsp", "record"} => CountsAddUp(lsp_usage)
        /\ pc = "record" => CountsAddUp(non_lsp_usage)
        /\ \A i \in 1..Len(results) :
              /\ CountsAddUp(results[i].lsp_usage)
              /\ CountsAddUp(results[i].non_lsp_usage)
        /\ \A k \in 1..Len(trace) :
              (trace[k].op = "lsp" /\ trace[k].raised
                    /\ trace[k].scenario <= Len(results))
                 => LET r == results[trace[k].scenario]
                    IN  /\ r.lsp_usage.output_tokens
                              = estimate_tokens(ErrorPrefix \o trace[k].message)
                        /\ r.lsp_usage.output_tokens > 0
                        /\ r.token_savings
                              = r.non_lsp_usage.total_tokens
                                   - r.lsp_usage.input_tokens
                                   - r.lsp_usage.output_tokens
        /\ pc = "done" => report.total_token_savings = SavingsOf(results)

\* C28 witness: the report is made and the semantic operation of the first
\* scenario had failed.
C28_Witness ==
    /\ prog = "token_benchmark" /\ pc = "done"
    /\ trace[2].op = "lsp" /\ trace[2].raised
    /\ ~results[1].lsp_usage.success
    /\ results[1].lsp_usage.output_tokens > 0
    /\ report.total_scenarios = NumScenarios

-----------------------------------------------------------------------------
(* run_all_tests.py: main() *)

\* tests: the scripts of the suite and their names
SuiteTests ==
    << [file |-> "ab_tests/semantic_quality_test.py",
        name |-> "Semantic Quality Test"],
       [file |-> "ab_tests/error_detection_test.py",
        name |-> "Error Detection Test"],
       [file |-> "token_benchmarks/token_benchmark_terraform.py",
        name |-> "Token Usage Benchmark"],
       [file |-> "ab_tests/comprehensive_ab_test.py",
        name |-> "Comprehensive A/B Test"] >>

\* what a run of `cd ... && python test_file` does: main() of the script
\* runs to its end ("completed"); main() catches an exception, prints it and
\* returns None ("caught"); the shell or the interpreter ends with a non-zero
\* status before or outside main(), as when cd fails or an import raises
\* ("crashed"); or os.system itself raises ("raises")
ScriptOutcomes == {"completed", "caught", "crashed", "raises"}

\* the status os.system returns: each script ends with
\* `if __name__ == "__main__": main()`, which drops what main() returns, and
\* every main() catches Exception, so the interpreter exits with 0 whenever
\* main() returns
ExitStatus(outcome) == IF outcome \in {"completed", "caught"} THEN 0 ELSE 256

\* str(e) of the exception of run_test
SystemErrorText == Rep(CH, 6) \o <<WS>> \o Rep(CH, 4) \o <<WS>> \o Rep(CH, 6)

\* run_test: the dict returned (without its execution_time)
run_test(test_file, test_name, outcome) ==
    IF outcome = "raises"
    THEN [test |-> test_name, file |-> test_file, success |-> FALSE,
          error |-> SystemErrorText]
    ELSE [test |-> test_name, file |-> test_file,
          success |-> ExitStatus(outcome) = 0]

\* the summary dict of main() (without its clock readings)
SuiteSummary(results_) ==
    LET successful_tests ==
            Cardinality({ i \in 1..Len(results_) : results_[i].success })
        total_tests == Len(results_)
    IN  [total_tests      |-> total_tests,
         successful_tests |-> successful_tests,
         success_rate     |-> Frac(100 * successful_tests, total_tests),
         test_results     |-> results_]

\* main(): results = []; in this run `trace` keeps what each script run did
InitSuite ==
    /\ prog = "suite"
    /\ pc = "run"
    /\ text1 = <<>> /\ text2 = <<>> /\ est = <<>>
    /\ call = <<>> /\ ret = <<>>
    /\ files = <<>>
    /\ workspace = "absent"
    /\ idx = 1
    /\ lsp_usage = <<>>
    /\ non_lsp_usage = <<>>
    /\ results = <<>>
    /\ count = 0 /\ detected = <<>> /\ errors = <<>> /\ report = <<>>
    /\ trace = <<>>

\* one pass of `for test_file, test_name in tests`
SuiteRunTest ==
    /\ prog = "suite" /\ pc = "run"
    /\ \E outcome \in ScriptOutcomes :
          /\ results' = Append(results,
                               run_test(SuiteTests[idx].file, SuiteTests[idx].name,
                                        outcome))
          /\ trace' = Append(trace,
                             Event(outcome, idx, outcome = "raises",
                                   IF outcome = "raises" THEN SystemErrorText
                                   ELSE <<>>))
    /\ idx' = idx + 1
    /\ pc' = IF idx + 1 > Len(SuiteTests) THEN "summary" ELSE "run"
    /\ UNCHANGED <<prog, estVars, files, workspace, lsp_usage, non_lsp_usage, testVars>>

\* the counts and the summary dict; the division by total_tests raises when
\* there is no test
SuiteSummarize ==
    /\ prog = "suite" /\ pc = "summary"
    /\ LET summary == SuiteSummary(results)
       IN  IF Raised(summary.success_rate)
           THEN /\ pc' = "raised"
                /\ report' = report
           ELSE /\ pc' = "save"
                /\ report' = summary
    /\ UNCHANGED <<prog, estVars, tokenVars, count, detected, errors>>

\* the summary file is written and main() returns 0 or 1; an OSError of
\* os.makedirs, open or json.dump leaves main()
SuiteSave ==
    /\ prog = "suite" /\ pc = "save"
    /\ \/ /\ pc' = "returned"
          /\ ret' = IF report.successful_tests = report.total_tests THEN 0 ELSE 1
       \/ /\ pc' = "raised"
          /\ ret' = ret
    /\ UNCHANGED <<prog, text1, text2, est, call, tokenVars, testVars>>

NextSuite ==
    \/ SuiteRunTest
    \/ SuiteSummarize
    \/ SuiteSave

SpecSuite == InitSuite /\ [][NextSuite]_vars

\* C25: every test that failed is listed in test_results of the summary with
\* success = false and a non-empty error message, and a failing test does
\* not stop the suite: the summary has one entry per configured test, in the
\* configured order.
C25_FailuresListed ==
    (prog = "suite" /\ "test_results" \in DOMAIN report) =>
        /\ Len(report.test_results) = Len(SuiteTests)
        /\ \A i \in 1..Len(SuiteTests) :
              /\ report.test_results[i].test = SuiteTests[i].name
              /\ report.test_results[i].file = SuiteTests[i].file
              /\ trace[i].op # "completed" =>
                    /\ ~report.test_results[i].success
                    /\ "error" \in DOMAIN report.test_results[i]
                    /\ report.test_results[i].error # <<>>

\* C30: a test is reported successful only if its script ran to completion
\* without its main() having caught a failure, and main() returns 0 iff all
\* four tests are reported successful, 1 otherwise.
C30_VerdictIsReal ==
    prog = "suite" =>
        /\ \A i \in 1..Len(results) :
              results[i].success => trace[i].op = "completed"
        /\ pc = "returned" =>
              /\ ret \in {0, 1}
              /\ ret = 0 <=> \A i \in 1..Len(SuiteTests) : results[i].success

=============================================================================
